---- MODULE Spec2Model ----
(***************************************************************************)
(* Verification model of the telemetry playback / geofencing core of the   *)
(* autocross telemetry frontend:                                           *)
(*   - useGeofencing  (frontend/src/hooks/course.ts): geofence evaluator   *)
(*     and sector timing state kept in three React states and three refs;  *)
(*   - usePlayback    (frontend/src/hooks/index.ts): the playback clock    *)
(*     driven by requestAnimationFrame, with its refs and effects.         *)
(* Optional values (null / undefined) are sequences of length 0 or 1.      *)
(***************************************************************************)
EXTENDS Integers, Sequences, FiniteSets, TLC

VARIABLES
    sectors,              \* the sectors prop of useGeofencing (fixed per run)
    activeSectorId,       \* useState<string | null>
    sectorTimes,          \* useState<SectorTime[]>
    events,               \* useState<GeofenceEvent[]>
    entryTimeRef,         \* useRef<number | null>
    previousPositionRef,  \* useRef<Point | null>
    startTimeRef,         \* useRef<number | null>
    fresh,                \* a second useGeofencing instance, constructed at the
                          \* last reset of the first and given the same calls
    epoch,                \* "constructed" until the first reset, then "reset"
    thrown,               \* whether the last call of the hook ended in an
                          \* exception instead of returning
    \* ---- usePlayback ----
    state,                \* useState<PlaybackState>, as last committed
    queue,                \* setState calls not yet rendered, in call order
    pendingEffects,       \* dependencies changed by the last commit whose
                          \* effects have not run yet
    playbackSpeedRef,     \* useRef(state.playbackSpeed)
    loopingRef,           \* useRef(state.looping)
    isPlayingRef,         \* useRef(state.isPlaying)
    maxDurationRef,       \* useRef(maxDuration)
    lastFrameTime,        \* useRef<number>(0)
    animationRef,         \* useRef<number | null>(null)
    animationCleanup,     \* whether the animation effect's last run returned
                          \* its cleanup function
    rafPending,           \* frame requests the browser has not yet served
    clock,                \* the wall clock, in units of 500 ms
    ticks,                \* the tick updaters run by the most recent render
    acts,                 \* how many user events have happened
    frames,               \* the frame callbacks since the last committed
                          \* change of isPlaying from false to true
    currentSamples,       \* useState<Map<string, PlaybackSample>>, as last
                          \* committed: the sample of the one selected run
    samplesQueue,         \* a setCurrentSamples call not yet rendered
    \* ---- the pure functions ----
    call,                 \* one call of a pure function: its name, its
                          \* arguments and, once it has returned, its result
    \* ---- useCourse ----
    course,               \* useState<CourseDefinition>
    history,              \* useState<EditorHistoryEntry[]>
    historyIndex,         \* useState(-1)
    ops,                  \* how many operations of the hook have been called
    trail,                \* the kinds of the last three of them, oldest first
    afterEdit             \* elements and sectors as the last history-recording
                          \* edit left them

geoVars == <<sectors, activeSectorId, sectorTimes, events, entryTimeRef,
             previousPositionRef, startTimeRef, fresh, epoch, thrown>>

playVars == <<state, queue, pendingEffects, playbackSpeedRef, loopingRef,
              isPlayingRef, maxDurationRef, lastFrameTime, animationRef,
              animationCleanup, rafPending, clock, ticks, acts, frames,
              currentSamples, samplesQueue>>

editVars == <<course, history, historyIndex, ops, trail, afterEdit>>

vars == <<geoVars, playVars, call, editVars>>

----------------------------------------------------------------------------
(* null / undefined *)
Null == <<>>
Some(v) == <<v>>
Val(o) == o[1]

Pt(px, py) == [x |-> px, y |-> py]

----------------------------------------------------------------------------
(* Bounds of the model *)
MaxTime == 1        \* timestamps passed to updatePosition are 0..MaxTime
MaxEvents == 4      \* updatePosition is not called once the log holds this many

Timestamps == 0..MaxTime

(* The positions fed to updatePosition: four points on the line y = 1. *)
Positions == {Pt(2, 1), Pt(4, 1), Pt(6, 1), Pt(8, 1)}

----------------------------------------------------------------------------
(* Sector configurations (CourseSector).  polygon is the vertex ring (Null  *)
(* when the sector has none), entryGate / exitGate an optional SectorGate,  *)
(* targetTime an optional number.                                           *)
Rect(x0, x1) == <<Pt(x0, 0), Pt(x1, 0), Pt(x1, 2), Pt(x0, 2)>>

Gate(px) == [position |-> Pt(px, 1), width |-> 2, rotation |-> 0]

Sector(id, enabled, poly, entry, exit, target) ==
    [id |-> id, name |-> id, timingEnabled |-> enabled, polygon |-> poly,
     entryGate |-> entry, exitGate |-> exit, targetTime |-> target]

(* one timing-enabled polygon sector, with each kind of target, beside a    *)
(* sector whose timing is switched off                                      *)
SingleCourse(target) ==
    << Sector("A", TRUE, Some(Rect(3, 7)), Null, Null, target),
       Sector("D", FALSE, Some(Rect(5, 9)), Null, Null, Null) >>

(* two overlapping polygon sectors *)
OverlapCourse ==
    << Sector("A", TRUE, Some(Rect(3, 7)), Null, Null, Null),
       Sector("B", TRUE, Some(Rect(5, 9)), Null, Null, Some(1)) >>

(* a gate-only sector beside a polygon sector *)
GatedCourse ==
    << Sector("G", TRUE, Null, Some(Gate(3)), Some(Gate(7)), Null),
       Sector("B", TRUE, Some(Rect(5, 9)), Null, Null, Null) >>

(* the square (0,0), (10,0), (10,10), (0,10) as one polygon sector *)
Square == <<Pt(0, 0), Pt(10, 0), Pt(10, 10), Pt(0, 10)>>

SquareCourse == << Sector("S", TRUE, Some(Square), Null, Null, Null) >>

(* a timing-enabled sector with neither a polygon nor a gate *)
BareCourse == << Sector("N", TRUE, Null, Null, Null, Null) >>

Courses ==
    {SingleCourse(Null), SingleCourse(Some(0)), SingleCourse(Some(1)),
     OverlapCourse, GatedCourse, SquareCourse, BareCourse}

(* the positions driven over a course: below, inside and right of the       *)
(* square, and the four points of the line y = 1 for the other courses      *)
PositionsFor(secs) ==
    IF secs = SquareCourse THEN {Pt(5, -1), Pt(5, 5), Pt(15, 5)} ELSE Positions

----------------------------------------------------------------------------
(* Geometry *)

(* hooks/course.ts direction(): cross product *)
direction(p1, p2, p3) ==
    (p3.x - p1.x) * (p2.y - p1.y) - (p2.x - p1.x) * (p3.y - p1.y)

Min(a, b) == IF a <= b THEN a ELSE b
Max(a, b) == IF a >= b THEN a ELSE b

onSegment(p1, p2, p) ==
    /\ Min(p1.x, p2.x) <= p.x /\ p.x <= Max(p1.x, p2.x)
    /\ Min(p1.y, p2.y) <= p.y /\ p.y <= Max(p1.y, p2.y)

(* mutant: only the proper crossing, without the d = 0 cases *)
doLineSegmentsIntersect_properOnly(p1, p2, p3, p4) ==
    LET d1 == direction(p3, p4, p1)
        d2 == direction(p3, p4, p2)
        d3 == direction(p1, p2, p3)
        d4 == direction(p1, p2, p4)
    IN  /\ ((d1 > 0 /\ d2 < 0) \/ (d1 < 0 /\ d2 > 0))
        /\ ((d3 > 0 /\ d4 < 0) \/ (d3 < 0 /\ d4 > 0))

doLineSegmentsIntersect(p1, p2, p3, p4) ==
    LET d1 == direction(p3, p4, p1)
        d2 == direction(p3, p4, p2)
        d3 == direction(p1, p2, p3)
        d4 == direction(p1, p2, p4)
    IN  IF /\ ((d1 > 0 /\ d2 < 0) \/ (d1 < 0 /\ d2 > 0))
           /\ ((d3 > 0 /\ d4 < 0) \/ (d3 < 0 /\ d4 > 0))
        THEN TRUE
        ELSE IF d1 = 0 /\ onSegment(p3, p4, p1) THEN TRUE
        ELSE IF d2 = 0 /\ onSegment(p3, p4, p2) THEN TRUE
        ELSE IF d3 = 0 /\ onSegment(p1, p2, p3) THEN TRUE
        ELSE IF d4 = 0 /\ onSegment(p1, p2, p4) THEN TRUE
        ELSE FALSE

(* cos(rad + PI/2) and sin(rad + PI/2) for a rotation that is a multiple of *)
(* 180 degrees.  In IEEE doubles cos(PI/2) is 6.1e-17, which the sums below *)
(* absorb for the gate positions of this model (x >= 2, half width 1), so   *)
(* the end points are the exact integers computed here.                     *)
cosPerp(rotation) == 0
sinPerp(rotation) == IF rotation % 360 = 0 THEN 1 ELSE -1

doesLineCrossGate(p1, p2, gate) ==
    LET halfWidth == gate.width \div 2
        g1 == Pt(gate.position.x + cosPerp(gate.rotation) * halfWidth,
                 gate.position.y + sinPerp(gate.rotation) * halfWidth)
        g2 == Pt(gate.position.x - cosPerp(gate.rotation) * halfWidth,
                 gate.position.y - sinPerp(gate.rotation) * halfWidth)
    IN  doLineSegmentsIntersect(p1, p2, g1, g2)

(* One edge (vertices[i], vertices[j]) of the ray-casting loop.  The test   *)
(*   point.x < (xj - xi) * (point.y - yi) / (yj - yi) + xi                  *)
(* is evaluated exactly by multiplying through by yj - yi, which the first  *)
(* conjunct makes non-zero.                                                 *)
edgeCrossed(point, vi, vj) ==
    /\ (vi.y > point.y) # (vj.y > point.y)
    /\ IF vj.y - vi.y > 0
       THEN (point.x - vi.x) * (vj.y - vi.y) < (vj.x - vi.x) * (point.y - vi.y)
       ELSE (point.x - vi.x) * (vj.y - vi.y) > (vj.x - vi.x) * (point.y - vi.y)

isPointInPolygon(point, vertices) ==
    LET n == Len(vertices)
        prev(i) == IF i = 1 THEN n ELSE i - 1
        crossed == {i \in 1..n : edgeCrossed(point, vertices[i], vertices[prev(i)])}
    IN  IF n < 3 THEN FALSE ELSE Cardinality(crossed) % 2 = 1

----------------------------------------------------------------------------
(* One useGeofencing instance: its three React states and three refs.  The  *)
(* state setters are applied in call order, so a handler's queued updates   *)
(* are folded into the record as they are issued.                           *)
GeoInitial ==
    [activeSectorId |-> Null, sectorTimes |-> <<>>, events |-> <<>>,
     entryTimeRef |-> Null, previousPositionRef |-> Null, startTimeRef |-> Null]

GeofenceEvent(sectorId, eventType, timestamp, position) ==
    [sectorId |-> sectorId, eventType |-> eventType,
     timestamp |-> timestamp, position |-> position]

handleSectorEntry(g, sectorId, timestamp, position) ==
    [g EXCEPT !.activeSectorId = Some(sectorId),
              !.entryTimeRef = Some(timestamp),
              !.events = Append(@, GeofenceEvent(sectorId, "enter", timestamp, position))]

(* sectors.find(s => s.id === sectorId) *)
findSector(secs, sectorId) ==
    LET hits == {i \in 1..Len(secs) : secs[i].id = sectorId}
    IN  IF hits = {} THEN Null
        ELSE Some(secs[CHOOSE i \in hits : \A k \in hits : i <= k])

(* sector.targetTime ? duration - sector.targetTime : undefined *)
deltaFromTarget(sector, duration) ==
    IF sector.targetTime # Null /\ Val(sector.targetTime) # 0
    THEN Some(duration - Val(sector.targetTime))
    ELSE Null

(* mutant: the duration subtracted the wrong way round *)
SectorTime_reversed(sector, sectorId, entryTime, timestamp) ==
    [sectorId |-> sectorId, sectorName |-> sector.name,
     entryTime |-> entryTime, exitTime |-> timestamp,
     duration |-> entryTime - timestamp,
     deltaFromTarget |-> deltaFromTarget(sector, entryTime - timestamp)]

SectorTime(sector, sectorId, entryTime, timestamp) ==
    [sectorId |-> sectorId, sectorName |-> sector.name,
     entryTime |-> entryTime, exitTime |-> timestamp,
     duration |-> timestamp - entryTime,
     deltaFromTarget |-> deltaFromTarget(sector, timestamp - entryTime)]

handleSectorExit(g, secs, sectorId, timestamp, position) ==
    LET sector == findSector(secs, sectorId)
        timed == IF g.entryTimeRef # Null /\ sector # Null
                 THEN Append(g.sectorTimes,
                             SectorTime(Val(sector), sectorId, Val(g.entryTimeRef), timestamp))
                 ELSE g.sectorTimes
    IN  [g EXCEPT !.sectorTimes = timed,
                  !.events = Append(@, GeofenceEvent(sectorId, "exit", timestamp, position)),
                  !.activeSectorId = Null,
                  !.entryTimeRef = Null]

(* mutant: enter fires whenever the current position is inside *)
polygonCheck_enterWhileInside(g, secs, sector, prevPos, position, timestamp) ==
    IF sector.polygon = Null THEN g
    ELSE LET wasInside == IF prevPos # Null
                          THEN isPointInPolygon(Val(prevPos), Val(sector.polygon))
                          ELSE FALSE
             isInside == isPointInPolygon(position, Val(sector.polygon))
         IN  IF isInside
             THEN handleSectorEntry(g, sector.id, timestamp, position)
             ELSE IF wasInside /\ ~isInside
             THEN handleSectorExit(g, secs, sector.id, timestamp, position)
             ELSE g

(* the polygon branch of the sector loop *)
polygonCheck(g, secs, sector, prevPos, position, timestamp) ==
    IF sector.polygon = Null THEN g
    ELSE LET wasInside == IF prevPos # Null
                          THEN isPointInPolygon(Val(prevPos), Val(sector.polygon))
                          ELSE FALSE
             isInside == isPointInPolygon(position, Val(sector.polygon))
         IN  IF ~wasInside /\ isInside
             THEN handleSectorEntry(g, sector.id, timestamp, position)
             ELSE IF wasInside /\ ~isInside
             THEN handleSectorExit(g, secs, sector.id, timestamp, position)
             ELSE g

entryGateCheck(g, sector, prevPos, position, timestamp) ==
    IF /\ sector.entryGate # Null
       /\ prevPos # Null
       /\ doesLineCrossGate(Val(prevPos), position, Val(sector.entryGate))
    THEN handleSectorEntry(g, sector.id, timestamp, position)
    ELSE g

exitGateCheck(g, secs, sector, prevPos, position, timestamp) ==
    IF /\ sector.exitGate # Null
       /\ prevPos # Null
       /\ doesLineCrossGate(Val(prevPos), position, Val(sector.exitGate))
    THEN handleSectorExit(g, secs, sector.id, timestamp, position)
    ELSE g

(* the body of `for (const sector of sectors)` for one sector *)
checkSector(g, secs, sector, prevPos, position, timestamp) ==
    IF ~sector.timingEnabled THEN g
    ELSE LET g1 == polygonCheck(g, secs, sector, prevPos, position, timestamp)
             g2 == entryGateCheck(g1, sector, prevPos, position, timestamp)
         IN  exitGateCheck(g2, secs, sector, prevPos, position, timestamp)

RECURSIVE sectorLoop(_, _, _, _, _, _)
sectorLoop(g, secs, i, prevPos, position, timestamp) ==
    IF i > Len(secs) THEN g
    ELSE sectorLoop(checkSector(g, secs, secs[i], prevPos, position, timestamp),
                    secs, i + 1, prevPos, position, timestamp)

updatePosition(g, secs, position, timestamp) ==
    LET prevPos == g.previousPositionRef
        g0 == [g EXCEPT !.startTimeRef = IF @ = Null THEN Some(timestamp) ELSE @,
                        !.previousPositionRef = Some(position)]
    IN  sectorLoop(g0, secs, 1, prevPos, position, timestamp)

(* mutant: a reset that forgets the previous position *)
reset_keepsPosition(g) ==
    [g EXCEPT !.activeSectorId = Null,
              !.sectorTimes = <<>>,
              !.events = <<>>,
              !.entryTimeRef = Null,
              !.startTimeRef = Null]

reset(g) ==
    [g EXCEPT !.activeSectorId = Null,
              !.sectorTimes = <<>>,
              !.events = <<>>,
              !.entryTimeRef = Null,
              !.previousPositionRef = Null,
              !.startTimeRef = Null]

----------------------------------------------------------------------------
(* The first instance as a record, and its assignment back to the fields *)
Geo ==
    [activeSectorId |-> activeSectorId, sectorTimes |-> sectorTimes,
     events |-> events, entryTimeRef |-> entryTimeRef,
     previousPositionRef |-> previousPositionRef, startTimeRef |-> startTimeRef]

SetGeo(g) ==
    /\ activeSectorId' = g.activeSectorId
    /\ sectorTimes' = g.sectorTimes
    /\ events' = g.events
    /\ entryTimeRef' = g.entryTimeRef
    /\ previousPositionRef' = g.previousPositionRef
    /\ startTimeRef' = g.startTimeRef

GeoConstructed ==
    /\ activeSectorId = Null
    /\ sectorTimes = <<>>
    /\ events = <<>>
    /\ entryTimeRef = Null
    /\ previousPositionRef = Null
    /\ startTimeRef = Null
    /\ fresh = GeoInitial
    /\ epoch = "constructed"
    /\ thrown = FALSE

UpdatePosition ==
    /\ Len(events) < MaxEvents
    /\ \E position \in PositionsFor(sectors), timestamp \in Timestamps :
          /\ SetGeo(updatePosition(Geo, sectors, position, timestamp))
          /\ fresh' = updatePosition(fresh, sectors, position, timestamp)
    \* no statement of updatePosition or of what it calls throws: a sector
    \* fails each of the three `if`s of the loop body and the loop goes on
    /\ thrown' = FALSE
    /\ UNCHANGED <<sectors, epoch>>
    /\ UNCHANGED <<playVars, call, editVars>>

Reset ==
    /\ SetGeo(reset(Geo))
    /\ fresh' = GeoInitial
    /\ epoch' = "reset"
    /\ thrown' = FALSE
    /\ UNCHANGED sectors
    /\ UNCHANGED <<playVars, call, editVars>>

GeoNext == UpdatePosition \/ Reset

----------------------------------------------------------------------------
(* Exact rational numbers <<n, d>> with d > 0 in lowest terms, for the      *)
(* values the interpolation and the crossing solver compute.  The model     *)
(* computes them exactly; the rounding of the doubles is not modelled.      *)
Abs(n) == IF n < 0 THEN -n ELSE n

RECURSIVE GCD(_, _)
GCD(a, b) == IF b = 0 THEN a ELSE GCD(b, a % b)

QNorm(n, d) ==
    LET g == GCD(Abs(n), Abs(d))
        sgn == IF d < 0 THEN -1 ELSE 1
    IN  <<sgn * (n \div g), sgn * (d \div g)>>

Q(n) == <<n, 1>>
(* sums over the least common denominator, products reduced crosswise, so  *)
(* that the intermediate integers stay small                                *)
QAdd(a, b) ==
    LET g == GCD(a[2], b[2])
    IN  QNorm(a[1] * (b[2] \div g) + b[1] * (a[2] \div g), (a[2] \div g) * b[2])
QNeg(a) == <<-a[1], a[2]>>
QSub(a, b) == QAdd(a, QNeg(b))
QMul(a, b) ==
    LET g1 == GCD(Abs(a[1]), b[2])
        g2 == GCD(Abs(b[1]), a[2])
    IN  QNorm((a[1] \div g1) * (b[1] \div g2), (a[2] \div g2) * (b[2] \div g1))
QDiv(a, b) == QMul(a, QNorm(b[2], b[1]))
QLt(a, b) == QSub(a, b)[1] < 0
QLe(a, b) == QSub(a, b)[1] <= 0

----------------------------------------------------------------------------
(* PlaybackSample (types/index.ts): time is an integer of the model, every  *)
(* scalar field a rational, and valid holds for every field an optional     *)
(* boolean (Null when the key is missing from the Record).                  *)
Fields == {"x", "y", "speed", "heading", "ax", "ay", "yaw_rate", "total_g"}

ValidRecord(F(_)) ==
    [x |-> F("x"), y |-> F("y"), speed |-> F("speed"), heading |-> F("heading"),
     ax |-> F("ax"), ay |-> F("ay"), yaw_rate |-> F("yaw_rate"),
     total_g |-> F("total_g")]

(* `valid0 !== undefined ? valid0 : true`, and `valid.speed ?? true` of the *)
(* telemetry inspector: a missing flag means valid                          *)
flagOrTrue(flag) == IF flag # Null THEN Val(flag) ELSE TRUE

(* mutant: one valid endpoint is blended with the invalid one *)
interpolateValue_blendsUnknown(v0, v1, t, valid0, valid1) ==
    LET v0Valid == flagOrTrue(valid0)
        v1Valid == flagOrTrue(valid1)
    IN  IF ~v0Valid /\ ~v1Valid THEN [value |-> Q(0), valid |-> FALSE]
        ELSE [value |-> QAdd(v0, QMul(QSub(v1, v0), t)), valid |-> TRUE]

interpolateValue(v0, v1, t, valid0, valid1) ==
    LET v0Valid == flagOrTrue(valid0)
        v1Valid == flagOrTrue(valid1)
    IN  IF ~v0Valid /\ ~v1Valid THEN [value |-> Q(0), valid |-> FALSE]
        ELSE IF v0Valid /\ v1Valid
        THEN [value |-> QAdd(v0, QMul(QSub(v1, v0), t)), valid |-> TRUE]
        ELSE IF v1Valid THEN [value |-> v1, valid |-> TRUE]
        ELSE [value |-> v0, valid |-> TRUE]

interpolateAngle(a0, a1, t, valid0, valid1) ==
    LET a0Valid == flagOrTrue(valid0)
        a1Valid == flagOrTrue(valid1)
        d0 == QSub(a1, a0)
        d1 == IF QLt(Q(180), d0) THEN QSub(d0, Q(360)) ELSE d0
        diff == IF QLt(d1, Q(-180)) THEN QAdd(d1, Q(360)) ELSE d1
        r0 == QAdd(a0, QMul(diff, t))
        r1 == IF QLt(r0, Q(0)) THEN QAdd(r0, Q(360)) ELSE r0
        result == IF QLe(Q(360), r1) THEN QSub(r1, Q(360)) ELSE r1
    IN  IF ~a0Valid /\ ~a1Valid THEN [value |-> Q(0), valid |-> FALSE]
        ELSE IF ~a0Valid THEN [value |-> a1, valid |-> TRUE]
        ELSE IF ~a1Valid THEN [value |-> a0, valid |-> TRUE]
        ELSE [value |-> result, valid |-> TRUE]

(* the sample getSampleAtTime returns for an empty sequence: `valid: {}` *)
emptySample(time) ==
    [time |-> time, x |-> Q(0), y |-> Q(0), speed |-> Q(0), heading |-> Q(0),
     ax |-> Q(0), ay |-> Q(0), yaw_rate |-> Q(0), total_g |-> Q(0),
     valid |-> ValidRecord(LAMBDA f : Null)]

(* mutant: with no bracketing pair the first two samples are taken *)
bracket_firstPair(samples, time) ==
    LET n == Len(samples)
        hits == {i \in 1..(n - 1) :
                    samples[i].time <= time /\ samples[i + 1].time >= time}
        first == CHOOSE i \in hits : \A k \in hits : i <= k
    IN  IF hits = {} THEN <<1, IF n >= 2 THEN 2 ELSE n>> ELSE <<first, first + 1>>

(* the bracketing loop: the first i with samples[i].time <= time and        *)
(* samples[i + 1].time >= time, else the first and the last sample          *)
bracket(samples, time) ==
    LET n == Len(samples)
        hits == {i \in 1..(n - 1) :
                    samples[i].time <= time /\ samples[i + 1].time >= time}
        first == CHOOSE i \in hits : \A k \in hits : i <= k
    IN  IF hits = {} THEN <<1, n>> ELSE <<first, first + 1>>

(* mutant: the clamp to the upper bracketing sample is missing for a query  *)
(* at that sample's time, so the blend at t = 1 is returned instead         *)
clampToBounds_open(s0, s1, time) ==
    IF time <= s0.time THEN Some(s0)
    ELSE IF time > s1.time THEN Some(s1)
    ELSE Null

(* `if (time <= s0.time) return s0; if (time >= s1.time) return s1;` *)
clampToBounds(s0, s1, time) ==
    IF time <= s0.time THEN Some(s0)
    ELSE IF time >= s1.time THEN Some(s1)
    ELSE Null

interpolated(s0, s1, time) ==
    LET t == QNorm(time - s0.time, s1.time - s0.time)
        iv(f) == IF f = "heading"
                 THEN interpolateAngle(s0[f], s1[f], t, s0.valid[f], s1.valid[f])
                 ELSE interpolateValue(s0[f], s1[f], t, s0.valid[f], s1.valid[f])
    IN  [time |-> time,
         x |-> iv("x").value, y |-> iv("y").value, speed |-> iv("speed").value,
         heading |-> iv("heading").value, ax |-> iv("ax").value,
         ay |-> iv("ay").value, yaw_rate |-> iv("yaw_rate").value,
         total_g |-> iv("total_g").value,
         valid |-> ValidRecord(LAMBDA f : Some(iv(f).valid))]

getSampleAtTime(samples, time) ==
    IF Len(samples) = 0 THEN emptySample(time)
    ELSE LET b == bracket(samples, time)
             s0 == samples[b[1]]
             s1 == samples[b[2]]
             clamped == clampToBounds(s0, s1, time)
         IN  IF clamped # Null THEN Val(clamped) ELSE interpolated(s0, s1, time)

----------------------------------------------------------------------------
(* The gate crossing solver of App.tsx.  Points are records of rationals.   *)
QPt(px, py) == [x |-> px, y |-> py]

(* a coordinate that is not a finite number: every comparison with it is    *)
(* false and every sum or product with it is again not a number             *)
NaN == <<>>

(* Number.isFinite *)
isFinite(v) == v # NaN

(* Math.abs(d) < 1e-9 *)
nearZero(d) == Abs(d[1]) <= (d[2] - 1) \div 1000000000

segmentIntersection(p1, p2, p3, p4) ==
    LET d == QSub(QMul(QSub(p2.x, p1.x), QSub(p4.y, p3.y)),
                  QMul(QSub(p2.y, p1.y), QSub(p4.x, p3.x)))
        ua == QDiv(QSub(QMul(QSub(p4.x, p3.x), QSub(p1.y, p3.y)),
                        QMul(QSub(p4.y, p3.y), QSub(p1.x, p3.x))), d)
        ub == QDiv(QSub(QMul(QSub(p2.x, p1.x), QSub(p1.y, p3.y)),
                        QMul(QSub(p2.y, p1.y), QSub(p1.x, p3.x))), d)
    IN  IF nearZero(d) THEN Null
        ELSE IF QLt(ua, Q(0)) \/ QLt(Q(1), ua) \/ QLt(ub, Q(0)) \/ QLt(Q(1), ub)
        THEN Null
        ELSE Some(QPt(QAdd(p1.x, QMul(ua, QSub(p2.x, p1.x))),
                      QAdd(p1.y, QMul(ua, QSub(p2.y, p1.y)))))

QSquare(a) == QMul(a, a)

pointSegDist2(p, a, b) ==
    LET vx == QSub(b.x, a.x)
        vy == QSub(b.y, a.y)
        wx == QSub(p.x, a.x)
        wy == QSub(p.y, a.y)
        c1 == QAdd(QMul(vx, wx), QMul(vy, wy))
        c2 == QAdd(QMul(vx, vx), QMul(vy, vy))
        t == QDiv(c1, c2)
        projx == QAdd(a.x, QMul(t, vx))
        projy == QAdd(a.y, QMul(t, vy))
    IN  IF ~isFinite(p.x) \/ ~isFinite(p.y) THEN NaN
        ELSE IF QLe(c1, Q(0))
        THEN QAdd(QSquare(QSub(p.x, a.x)), QSquare(QSub(p.y, a.y)))
        ELSE IF QLe(c2, c1)
        THEN QAdd(QSquare(QSub(p.x, b.x)), QSquare(QSub(p.y, b.y)))
        ELSE QAdd(QSquare(QSub(p.x, projx)), QSquare(QSub(p.y, projy)))

(* gateLen / 2 = 3.048 *)
halfGate == QNorm(3048, 1000)

(* cos and sin of angleDeg * PI / 180, for the one angle of the model, 0,   *)
(* where the doubles are exact                                              *)
cosDeg(angleDeg) == Q(1)
sinDeg(angleDeg) == Q(0)

(* g1 and g2 of a marker; `marker.angleDeg ?? 0` *)
gateEnds(marker) ==
    LET angleDeg == IF marker.angleDeg # Null THEN Val(marker.angleDeg) ELSE 0
        dx == QMul(cosDeg(angleDeg), halfGate)
        dy == QMul(sinDeg(angleDeg), halfGate)
    IN  << QPt(QSub(marker.x, dx), QSub(marker.y, dy)),
           QPt(QAdd(marker.x, dx), QAdd(marker.y, dy)) >>

(* mutant: a hit is timed at the later sample of the pair *)
crossingTime_atLaterSample(s0, s1, inter) ==
    s1.time

(* the time of a hit between s0 and s1 at the point inter *)
crossingTime(s0, s1, inter) ==
    LET segDx == QSub(s1.x, s0.x)
        segDy == QSub(s1.y, s0.y)
        sum == QAdd(QMul(segDx, segDx), QMul(segDy, segDy))
        len2 == IF sum = Q(0) THEN Q(1) ELSE sum
        t == QDiv(QAdd(QMul(QSub(inter.x, s0.x), segDx),
                       QMul(QSub(inter.y, s0.y), segDy)), len2)
    IN  QAdd(s0.time, QMul(t, QSub(s1.time, s0.time)))

(* mutant: on equal distances the later sample wins (`dist2 <= best`) *)
nearestTime_lastOnTies(samples, dist2) ==
    LET compared == {i \in 1..Len(samples) : isFinite(dist2[i])}
        best == CHOOSE i \in compared :
                    \A k \in compared : /\ QLe(dist2[i], dist2[k])
                                        /\ k > i => QLt(dist2[i], dist2[k])
    IN  IF compared = {} THEN Null ELSE Some(samples[best].time)

(* the fallback loop, given the dist2 of each sample: bestTime is the time  *)
(* of the first sample at the smallest distance, and it stays null when     *)
(* `dist2 < best` is never true                                             *)
nearestTime(samples, dist2) ==
    LET compared == {i \in 1..Len(samples) : isFinite(dist2[i])}
        best == CHOOSE i \in compared :
                    \A k \in compared : /\ QLe(dist2[i], dist2[k])
                                        /\ k < i => QLt(dist2[i], dist2[k])
    IN  IF compared = {} THEN Null ELSE Some(samples[best].time)

(* the fallback: the time of the first sample closest to the gate *)
closestSampleTime(samples, g1, g2) ==
    nearestTime(samples,
                [i \in 1..Len(samples) |->
                    pointSegDist2(QPt(samples[i].x, samples[i].y), g1, g2)])

(* the pair loop, given the intersection found for each pair (Null for a    *)
(* pair that is skipped or does not hit): the first hit returns its time    *)
firstHit(samples, inter, fallback) ==
    LET hits == {i \in 1..(Len(samples) - 1) : inter[i] # Null}
        first == CHOOSE i \in hits : \A k \in hits : i <= k
    IN  IF Len(samples) = 0 THEN Null
        ELSE IF hits # {}
        THEN Some(crossingTime(samples[first], samples[first + 1], Val(inter[first])))
        ELSE fallback

(* the pairs with a sample whose x or y is not finite are skipped *)
pairIntersections(samples, g1, g2) ==
    [i \in 1..(Len(samples) - 1) |->
        IF /\ isFinite(samples[i].x) /\ isFinite(samples[i].y)
           /\ isFinite(samples[i + 1].x) /\ isFinite(samples[i + 1].y)
        THEN segmentIntersection(QPt(samples[i].x, samples[i].y),
                                 QPt(samples[i + 1].x, samples[i + 1].y), g1, g2)
        ELSE Null]

gateCrossingTime(samples, g1, g2) ==
    firstHit(samples, pairIntersections(samples, g1, g2),
             closestSampleTime(samples, g1, g2))

getCrossingTime(samples, marker) ==
    gateCrossingTime(samples, gateEnds(marker)[1], gateEnds(marker)[2])

(* `times` of sectorResults: one entry per marker, in marker order; the     *)
(* third argument of getCrossingTime is never read.  Null stands for the    *)
(* NaN of `tCross ?? NaN`.                                                  *)
crossingTimes(samples, markers) ==
    [i \in 1..Len(markers) |-> getCrossingTime(samples, markers[i])]

(* mutant: a split that cannot be computed is shown as 0 *)
splitsOf_zeroForUnknown(times) ==
    [i \in 1..Len(times) |->
        IF i = 1 THEN Null
        ELSE IF times[i] = Null \/ times[i - 1] = Null THEN Some(Q(0))
        ELSE Some(QSub(Val(times[i]), Val(times[i - 1])))]

(* mutant: each split is measured from the first marker *)
splitsOf_fromFirst(times) ==
    [i \in 1..Len(times) |->
        IF i = 1 \/ times[i] = Null \/ times[i - 1] = Null THEN Null
        ELSE Some(QSub(Val(times[i]), Val(times[1])))]

splitsOf(times) ==
    [i \in 1..Len(times) |->
        IF i = 1 \/ times[i] = Null \/ times[i - 1] = Null THEN Null
        ELSE Some(QSub(Val(times[i]), Val(times[i - 1])))]

totalOf(times) ==
    IF times[1] # Null /\ times[Len(times)] # Null
    THEN Some(QSub(Val(times[Len(times)]), Val(times[1])))
    ELSE Null

resultRow(times) == [splits |-> splitsOf(times), total |-> totalOf(times)]

(* the row of one run in sectorResults, Null when the run gets no row: with *)
(* fewer than two markers the table is empty, and a run without samples is  *)
(* left out                                                                 *)
sectorResults(samples, markers) ==
    IF Len(markers) < 2 THEN Null
    ELSE IF Len(samples) = 0 THEN Null
    ELSE Some(resultRow(crossingTimes(samples, markers)))

----------------------------------------------------------------------------
(* usePlayback.  Units: the wall clock and frame timestamps count 500 ms,   *)
(* currentTime and durations count eighths of a second, and playbackSpeed   *)
(* holds four times the multiplier, so that                                 *)
(*   deltaS = (deltaMs / 1000) * speed                                      *)
(* is deltaMs * speed in these units.  All the values are dyadic, hence     *)
(* exact in the doubles of the code.                                        *)
(*                                                                          *)
(* React: a setState call queues its updater; a render runs the queued      *)
(* updaters in call order and commits the result; the effects whose         *)
(* dependencies the commit changed run afterwards in one pass, and always   *)
(* before the next render.  Frame callbacks and user events may occur       *)
(* between any two of these steps.                                          *)
Seconds(n) == 8 * n
Multiplier(n) == 4 * n

MaxClock == 5       \* the wall clock stops at MaxClock * 500 ms
MaxQueue == 2       \* at most this many setState calls await a render
MaxActs == 3        \* at most this many user events in a run

Gaps == 1..2                          \* a frame comes 500 or 1000 ms after the clock
Speeds == {Multiplier(1), Multiplier(2)}      \* of SPEED_OPTIONS
SeekTimes == {Seconds(10) - 4, Seconds(10)}   \* slider values: 9.5 s and the end
RunDuration == Seconds(10)            \* duration_s of the selected run

(* playback.samples of the selected run: samples at 0 s, 8 s and 10 s whose *)
(* x is the sample time, with no validity map                               *)
RunSample(time) ==
    [emptySample(time) EXCEPT !.x = Q(time)]

PlaybackSamples == <<RunSample(Seconds(0)), RunSample(Seconds(8)), RunSample(Seconds(10))>>

PlaybackInitial ==
    [isPlaying |-> FALSE, currentTime |-> 0,
     playbackSpeed |-> Multiplier(1), looping |-> TRUE]

Update(kind, arg) == [kind |-> kind, arg |-> arg]

(* mutant: looping snaps to the start instead of keeping the overshoot *)
animateUpdater_snapsToZero(prev, deltaMs, speed, looping, duration) ==
    LET newTime == prev.currentTime + deltaMs * speed
    IN  IF ~prev.isPlaying THEN prev
        ELSE IF newTime >= duration
             THEN IF looping
                  THEN [prev EXCEPT !.currentTime = 0]
                  ELSE [prev EXCEPT !.isPlaying = FALSE, !.currentTime = duration]
             ELSE [prev EXCEPT !.currentTime = newTime]

(* mutant: the end clamps the time but playback is left running *)
animateUpdater_keepsPlaying(prev, deltaMs, speed, looping, duration) ==
    LET newTime == prev.currentTime + deltaMs * speed
    IN  IF ~prev.isPlaying THEN prev
        ELSE IF newTime >= duration
             THEN IF looping
                  THEN [prev EXCEPT !.currentTime = newTime % duration]
                  ELSE [prev EXCEPT !.currentTime = duration]
             ELSE [prev EXCEPT !.currentTime = newTime]

(* mutant: the end stops playback at newTime, past the duration *)
animateUpdater_overshoots(prev, deltaMs, speed, looping, duration) ==
    LET newTime == prev.currentTime + deltaMs * speed
    IN  IF ~prev.isPlaying THEN prev
        ELSE IF newTime >= duration
             THEN IF looping
                  THEN [prev EXCEPT !.currentTime = newTime % duration]
                  ELSE [prev EXCEPT !.isPlaying = FALSE, !.currentTime = newTime]
             ELSE [prev EXCEPT !.currentTime = newTime]

(* mutant: at the end a tick rewinds and stops *)
animateUpdater_rewindsAtEnd(prev, deltaMs, speed, looping, duration) ==
    LET newTime == prev.currentTime + deltaMs * speed
    IN  IF ~prev.isPlaying THEN prev
        ELSE IF newTime >= duration
             THEN IF looping
                  THEN [prev EXCEPT !.currentTime = newTime % duration]
                  ELSE [prev EXCEPT !.isPlaying = FALSE, !.currentTime = 0]
             ELSE [prev EXCEPT !.currentTime = newTime]

(* mutant: a tick that does not look at prev.isPlaying *)
animateUpdater_ignoresPause(prev, deltaMs, speed, looping, duration) ==
    LET newTime == prev.currentTime + deltaMs * speed
    IN  IF newTime >= duration
        THEN IF looping
             THEN [prev EXCEPT !.currentTime = newTime % duration]
             ELSE [prev EXCEPT !.isPlaying = FALSE, !.currentTime = duration]
        ELSE [prev EXCEPT !.currentTime = newTime]

(* the updater that animate passes to setState, with the values it reads    *)
(* from playbackSpeedRef, loopingRef and maxDurationRef                     *)
animateUpdater(prev, deltaMs, speed, looping, duration) ==
    LET deltaS == deltaMs * speed
        newTime == prev.currentTime + deltaS
    IN  IF ~prev.isPlaying THEN prev
        ELSE IF newTime >= duration
             THEN IF looping
                  THEN [prev EXCEPT !.currentTime = newTime % duration]
                  ELSE [prev EXCEPT !.isPlaying = FALSE, !.currentTime = duration]
             ELSE [prev EXCEPT !.currentTime = newTime]

(* whether that updater takes its "stop at end" branch, which also writes   *)
(* isPlayingRef.current = false                                             *)
animateStops(prev, deltaMs, speed, looping, duration) ==
    /\ prev.isPlaying
    /\ prev.currentTime + deltaMs * speed >= duration
    /\ ~looping

(* One queued updater run during a render.  c holds the state being built   *)
(* (s), the refs an updater may write, and the record of the ticks run.     *)
applyUpdate(u, c, speedRef, durationRef) ==
    CASE u.kind = "animate" ->
           [c EXCEPT
              !.s = animateUpdater(c.s, u.arg, speedRef, c.loopingRef, durationRef),
              !.isPlayingRef =
                  IF animateStops(c.s, u.arg, speedRef, c.loopingRef, durationRef)
                  THEN FALSE ELSE @,
              !.ticks = Append(@,
                  [prev |-> c.s, deltaMs |-> u.arg, speed |-> speedRef,
                   looping |-> c.loopingRef, duration |-> durationRef,
                   next |-> animateUpdater(c.s, u.arg, speedRef, c.loopingRef,
                                           durationRef)])]
      [] u.kind = "play" -> [c EXCEPT !.s.isPlaying = TRUE]
      [] u.kind = "pause" -> [c EXCEPT !.s.isPlaying = FALSE]
      [] u.kind = "toggleLoop" ->
           [c EXCEPT !.loopingRef = ~c.s.looping, !.s.looping = ~c.s.looping]
      [] u.kind = "handlePlayPause" -> [c EXCEPT !.s.isPlaying = ~c.s.isPlaying]
      [] u.kind = "handleSeek" ->
           [c EXCEPT !.s.currentTime = u.arg, !.s.isPlaying = FALSE]
      [] u.kind = "handleSpeedChange" -> [c EXCEPT !.s.playbackSpeed = u.arg]
      [] u.kind = "handleLoopToggle" -> [c EXCEPT !.s.looping = ~c.s.looping]

RECURSIVE processQueue(_, _, _, _)
processQueue(q, c, speedRef, durationRef) ==
    IF q = <<>> THEN c
    ELSE processQueue(Tail(q), applyUpdate(Head(q), c, speedRef, durationRef),
                      speedRef, durationRef)

(* the dependencies of the hook's effects that differ between two commits *)
changedDeps(old, new) ==
    {d \in {"isPlaying", "playbackSpeed", "looping", "currentTime"} :
        old[d] # new[d]}

(* requestAnimationFrame returns a handle no live request or reference uses *)
requestId(raf, ref) ==
    CHOOSE i \in 1..3 : i \notin raf /\ Some(i) # ref /\
                        \A k \in 1..3 : (k \notin raf /\ Some(k) # ref) => i <= k

(* `if (animationRef.current) { cancelAnimationFrame(...); ... = null }` *)
cancelPending(a) ==
    IF a.animationRef # Null
    THEN [a EXCEPT !.rafPending = @ \ {Val(a.animationRef)}, !.animationRef = Null]
    ELSE a

(* mutant: a start of the animation that keeps the old frame time *)
animationEffect_keepsFrameTime(a, isPlaying) ==
    LET cleaned == IF a.animationCleanup THEN cancelPending(a) ELSE a
    IN  IF ~isPlaying
        THEN [cancelPending(cleaned) EXCEPT !.animationCleanup = FALSE]
        ELSE LET id == requestId(cleaned.rafPending, cleaned.animationRef)
             IN  [cleaned EXCEPT !.animationRef = Some(id),
                                 !.rafPending = @ \cup {id},
                                 !.animationCleanup = TRUE]

(* The animation effect, run because state.isPlaying changed: the cleanup   *)
(* its previous run returned, then its body for the committed isPlaying.    *)
(* a holds lastFrameTime, animationRef, rafPending and animationCleanup.    *)
animationEffect(a, isPlaying) ==
    LET cleaned == IF a.animationCleanup THEN cancelPending(a) ELSE a
    IN  IF ~isPlaying
        THEN [cancelPending(cleaned) EXCEPT !.animationCleanup = FALSE]
        ELSE LET id == requestId(cleaned.rafPending, cleaned.animationRef)
             IN  [cleaned EXCEPT !.lastFrameTime = 0,
                                 !.animationRef = Some(id),
                                 !.rafPending = @ \cup {id},
                                 !.animationCleanup = TRUE]

(* animate(timestamp): the frame callback.  f holds lastFrameTime,          *)
(* animationRef, rafPending (the served request already removed) and queue. *)
animate(f, timestamp) ==
    LET id == requestId(f.rafPending, f.animationRef)
        again == [f EXCEPT !.animationRef = Some(id), !.rafPending = @ \cup {id}]
        deltaMs == timestamp - f.lastFrameTime
    IN  IF f.lastFrameTime = 0
        THEN [again EXCEPT !.lastFrameTime = timestamp]
        ELSE IF deltaMs <= 0
        THEN [again EXCEPT !.lastFrameTime = timestamp]
        ELSE [again EXCEPT !.lastFrameTime = timestamp,
                           !.queue = Append(@, Update("animate", deltaMs))]

FramesInitial == [plays |-> 0, n |-> 0, first |-> 0, ref |-> 0, delta |-> 0]

PlayConstructed ==
    /\ state = PlaybackInitial
    /\ queue = <<>>
    /\ pendingEffects = {}
    /\ playbackSpeedRef = PlaybackInitial.playbackSpeed
    /\ loopingRef = PlaybackInitial.looping
    /\ isPlayingRef = PlaybackInitial.isPlaying
    /\ maxDurationRef = RunDuration
    /\ lastFrameTime = 0
    /\ animationRef = Null
    /\ animationCleanup = FALSE
    /\ rafPending = {}
    /\ clock = 1
    /\ ticks = <<>>
    /\ acts = 0
    /\ frames = FramesInitial
    /\ currentSamples = getSampleAtTime(PlaybackSamples, PlaybackInitial.currentTime)
    /\ samplesQueue = Null

(* a render and commit of the queued updates *)
Render ==
    /\ queue # <<>> \/ samplesQueue # Null
    /\ pendingEffects = {}
    /\ LET c == processQueue(queue,
                    [s |-> state, loopingRef |-> loopingRef,
                     isPlayingRef |-> isPlayingRef, ticks |-> <<>>],
                    playbackSpeedRef, maxDurationRef)
       IN  /\ state' = c.s
           /\ loopingRef' = c.loopingRef
           /\ isPlayingRef' = c.isPlayingRef
           /\ ticks' = c.ticks
           /\ pendingEffects' = changedDeps(state, c.s)
           /\ frames' = IF ~state.isPlaying /\ c.s.isPlaying
                        THEN [FramesInitial EXCEPT !.plays = frames.plays + 1]
                        ELSE frames
    /\ queue' = <<>>
    /\ currentSamples' = IF samplesQueue # Null THEN Val(samplesQueue)
                         ELSE currentSamples
    /\ samplesQueue' = Null
    /\ UNCHANGED <<playbackSpeedRef, maxDurationRef, lastFrameTime, animationRef,
                   animationCleanup, rafPending, clock, acts>>
    /\ UNCHANGED <<geoVars, call, editVars>>

(* mutant: the effect that copies state.playbackSpeed to its ref is missing *)
FlushEffects_skipsSpeedRef ==
    /\ pendingEffects # {}
    /\ playbackSpeedRef' = playbackSpeedRef
    /\ loopingRef' = IF "looping" \in pendingEffects
                     THEN state.looping ELSE loopingRef
    /\ isPlayingRef' = IF "isPlaying" \in pendingEffects
                       THEN state.isPlaying ELSE isPlayingRef
    /\ LET a == [lastFrameTime |-> lastFrameTime, animationRef |-> animationRef,
                 rafPending |-> rafPending, animationCleanup |-> animationCleanup]
           b == IF "isPlaying" \in pendingEffects
                THEN animationEffect(a, state.isPlaying) ELSE a
       IN  /\ lastFrameTime' = b.lastFrameTime
           /\ animationRef' = b.animationRef
           /\ rafPending' = b.rafPending
           /\ animationCleanup' = b.animationCleanup
    /\ samplesQueue' = IF "currentTime" \in pendingEffects
                       THEN Some(getSampleAtTime(PlaybackSamples, state.currentTime))
                       ELSE samplesQueue
    /\ pendingEffects' = {}
    /\ UNCHANGED <<state, queue, maxDurationRef, clock, ticks, acts, frames,
                   currentSamples>>
    /\ UNCHANGED <<geoVars, call, editVars>>

(* the effects of the last commit, in the order the hook declares them *)
FlushEffects ==
    /\ pendingEffects # {}
    /\ playbackSpeedRef' = IF "playbackSpeed" \in pendingEffects
                           THEN state.playbackSpeed ELSE playbackSpeedRef
    /\ loopingRef' = IF "looping" \in pendingEffects
                     THEN state.looping ELSE loopingRef
    /\ isPlayingRef' = IF "isPlaying" \in pendingEffects
                       THEN state.isPlaying ELSE isPlayingRef
    /\ LET a == [lastFrameTime |-> lastFrameTime, animationRef |-> animationRef,
                 rafPending |-> rafPending, animationCleanup |-> animationCleanup]
           b == IF "isPlaying" \in pendingEffects
                THEN animationEffect(a, state.isPlaying) ELSE a
       IN  /\ lastFrameTime' = b.lastFrameTime
           /\ animationRef' = b.animationRef
           /\ rafPending' = b.rafPending
           /\ animationCleanup' = b.animationCleanup
    /\ samplesQueue' = IF "currentTime" \in pendingEffects
                       THEN Some(getSampleAtTime(PlaybackSamples, state.currentTime))
                       ELSE samplesQueue
    /\ pendingEffects' = {}
    /\ UNCHANGED <<state, queue, maxDurationRef, clock, ticks, acts, frames,
                   currentSamples>>
    /\ UNCHANGED <<geoVars, call, editVars>>

(* the browser serves a pending frame request *)
Frame ==
    /\ Len(queue) < MaxQueue
    /\ \E id \in rafPending, gap \in Gaps :
          /\ clock + gap <= MaxClock
          /\ clock' = clock + gap
          /\ LET f == animate([lastFrameTime |-> lastFrameTime,
                               animationRef |-> animationRef,
                               rafPending |-> rafPending \ {id},
                               queue |-> queue], clock + gap)
             IN  /\ lastFrameTime' = f.lastFrameTime
                 /\ animationRef' = f.animationRef
                 /\ rafPending' = f.rafPending
                 /\ queue' = f.queue
                 /\ frames' =
                      [plays |-> frames.plays,
                       n |-> IF frames.n < 3 THEN frames.n + 1 ELSE 3,
                       first |-> IF frames.n = 0 THEN clock + gap ELSE frames.first,
                       ref |-> lastFrameTime,
                       delta |-> IF Len(f.queue) > Len(queue)
                                 THEN f.queue[Len(f.queue)].arg ELSE 0]
    /\ UNCHANGED <<state, pendingEffects, playbackSpeedRef, loopingRef,
                   isPlayingRef, maxDurationRef, animationCleanup, ticks, acts>>
    /\ UNCHANGED <<currentSamples, samplesQueue>>
    /\ UNCHANGED <<geoVars, call, editVars>>

(* time passes with no frame requested *)
Idle ==
    /\ rafPending = {}
    /\ clock < MaxClock
    /\ clock' = clock + 1
    /\ UNCHANGED <<state, queue, pendingEffects, playbackSpeedRef, loopingRef,
                   isPlayingRef, maxDurationRef, lastFrameTime, animationRef,
                   animationCleanup, rafPending, ticks, acts, frames>>
    /\ UNCHANGED <<currentSamples, samplesQueue>>
    /\ UNCHANGED <<geoVars, call, editVars>>

(* a user event that calls setState *)
Enqueue(u) ==
    /\ Len(queue) < MaxQueue
    /\ acts < MaxActs
    /\ acts' = acts + 1
    /\ queue' = Append(queue, u)

(* the hook's own methods *)
play ==
    /\ isPlayingRef' = TRUE
    /\ Enqueue(Update("play", 0))
    /\ UNCHANGED <<state, pendingEffects, playbackSpeedRef, loopingRef,
                   maxDurationRef, lastFrameTime, animationRef, animationCleanup,
                   rafPending, clock, ticks, frames>>
    /\ UNCHANGED <<currentSamples, samplesQueue>>
    /\ UNCHANGED <<geoVars, call, editVars>>

pause ==
    /\ isPlayingRef' = FALSE
    /\ Enqueue(Update("pause", 0))
    /\ UNCHANGED <<state, pendingEffects, playbackSpeedRef, loopingRef,
                   maxDurationRef, lastFrameTime, animationRef, animationCleanup,
                   rafPending, clock, ticks, frames>>
    /\ UNCHANGED <<currentSamples, samplesQueue>>
    /\ UNCHANGED <<geoVars, call, editVars>>

toggleLoop ==
    /\ Enqueue(Update("toggleLoop", 0))
    /\ UNCHANGED <<state, pendingEffects, playbackSpeedRef, loopingRef,
                   isPlayingRef, maxDurationRef, lastFrameTime, animationRef,
                   animationCleanup, rafPending, clock, ticks, frames>>
    /\ UNCHANGED <<currentSamples, samplesQueue>>
    /\ UNCHANGED <<geoVars, call, editVars>>

(* PlaybackControls, through the exposed setState *)
handlePlayPause ==
    /\ Enqueue(Update("handlePlayPause", 0))
    /\ UNCHANGED <<state, pendingEffects, playbackSpeedRef, loopingRef,
                   isPlayingRef, maxDurationRef, lastFrameTime, animationRef,
                   animationCleanup, rafPending, clock, ticks, frames>>
    /\ UNCHANGED <<currentSamples, samplesQueue>>
    /\ UNCHANGED <<geoVars, call, editVars>>

handleSeek ==
    /\ \E newTime \in SeekTimes : Enqueue(Update("handleSeek", newTime))
    /\ UNCHANGED <<state, pendingEffects, playbackSpeedRef, loopingRef,
                   isPlayingRef, maxDurationRef, lastFrameTime, animationRef,
                   animationCleanup, rafPending, clock, ticks, frames>>
    /\ UNCHANGED <<currentSamples, samplesQueue>>
    /\ UNCHANGED <<geoVars, call, editVars>>

handleSpeedChange ==
    /\ \E speed \in Speeds : Enqueue(Update("handleSpeedChange", speed))
    /\ UNCHANGED <<state, pendingEffects, playbackSpeedRef, loopingRef,
                   isPlayingRef, maxDurationRef, lastFrameTime, animationRef,
                   animationCleanup, rafPending, clock, ticks, frames>>
    /\ UNCHANGED <<currentSamples, samplesQueue>>
    /\ UNCHANGED <<geoVars, call, editVars>>

handleLoopToggle ==
    /\ Enqueue(Update("handleLoopToggle", 0))
    /\ UNCHANGED <<state, pendingEffects, playbackSpeedRef, loopingRef,
                   isPlayingRef, maxDurationRef, lastFrameTime, animationRef,
                   animationCleanup, rafPending, clock, ticks, frames>>
    /\ UNCHANGED <<currentSamples, samplesQueue>>
    /\ UNCHANGED <<geoVars, call, editVars>>

PlayNext ==
    \/ Render \/ FlushEffects \/ Frame \/ Idle
    \/ play \/ pause \/ toggleLoop
    \/ handlePlayPause \/ handleSeek \/ handleSpeedChange \/ handleLoopToggle

----------------------------------------------------------------------------
(* Calls of the pure functions.  A call holds the function's name and       *)
(* arguments; the action of that function fills in the result.              *)
NoCall == [fn |-> "none", result |-> Null]

MaxSamples == 3     \* a sample sequence holds at most this many samples

(* sample times are multiples of 4, query times every integer around them *)
SampleTimes == {4 * k : k \in 0..(MaxSamples - 1)}
QueryTimes == (-1)..(4 * (MaxSamples - 1) + 1)

(* validity maps: no key at all, and two maps that between them give every  *)
(* field each pairing of missing, true and false                            *)
ValidMaps ==
    { ValidRecord(LAMBDA f : Null),
      [x |-> Some(FALSE), y |-> Some(TRUE), speed |-> Null, heading |-> Some(FALSE),
       ax |-> Some(TRUE), ay |-> Some(FALSE), yaw_rate |-> Some(TRUE),
       total_g |-> Some(FALSE)],
      [x |-> Some(TRUE), y |-> Some(FALSE), speed |-> Some(FALSE), heading |-> Some(TRUE),
       ax |-> Null, ay |-> Some(FALSE), yaw_rate |-> Null, total_g |-> Some(TRUE)] }

(* a sample whose fields all derive from one number, each differently *)
MakeSample(time, v, valid) ==
    [time |-> time, x |-> Q(v), y |-> Q(v + 1), speed |-> Q(2 * v),
     heading |-> Q(IF v = 0 THEN 350 ELSE 10), ax |-> Q(-v), ay |-> Q(v + 3),
     yaw_rate |-> Q(7 - v), total_g |-> Q(v * v), valid |-> valid]

SamplesAt(time) == {MakeSample(time, v, valid) : v \in {0, 42}, valid \in ValidMaps}

(* the strictly increasing sample sequences over a set of times *)
RECURSIVE SequencesOver(_)
SequencesOver(times) ==
    IF times = {} THEN {<<>>}
    ELSE LET last == CHOOSE t \in times : \A u \in times : u <= t
             shorter == SequencesOver(times \ {last})
         IN  shorter \cup {Append(q, smp) : q \in shorter, smp \in SamplesAt(last)}

SampleCalls ==
    {[fn |-> "getSampleAtTime", samples |-> smps, time |-> time, result |-> Null] :
        smps \in SequencesOver(SampleTimes), time \in QueryTimes}

Flags == {Null, Some(TRUE), Some(FALSE)}
Blends == {QNorm(1, 4), QNorm(1, 2), QNorm(3, 4)}

ValueCalls ==
    {[fn |-> "interpolateValue", v0 |-> Q(a), v1 |-> Q(b), t |-> t,
      valid0 |-> f0, valid1 |-> f1, result |-> Null] :
        a \in {0, 42, -7}, b \in {0, 42, -7}, t \in Blends, f0 \in Flags, f1 \in Flags}

Angles == {0, 10, 90, 180, 270, 350}

AngleCalls ==
    {[fn |-> "interpolateAngle", a0 |-> Q(a), a1 |-> Q(b), t |-> t,
      valid0 |-> f0, valid1 |-> f1, result |-> Null] :
        a \in Angles, b \in Angles, t \in Blends \cup {Q(0), Q(1)},
        f0 \in {Null, Some(TRUE)}, f1 \in {Some(TRUE)}}

MaxPath == 3        \* a driven path holds at most this many samples

(* where the samples of a path lie: on the gate line, on either side of it, *)
(* beside the gate, and off the axis; and a sample without a position       *)
PathPoints ==
    {QPt(Q(pt[1]), Q(pt[2])) :
        pt \in {<<0, -2>>, <<0, 0>>, <<0, 2>>, <<2, 0>>, <<5, -2>>, <<5, 2>>, <<1, -1>>}}
    \cup {QPt(NaN, NaN)}

(* the paths of n samples, the i-th sample at time i - 1 *)
RECURSIVE PathsOfLength(_)
PathsOfLength(n) ==
    IF n = 0 THEN {<<>>}
    ELSE {Append(path, [time |-> Q(n - 1), x |-> pt.x, y |-> pt.y]) :
             path \in PathsOfLength(n - 1), pt \in PathPoints}

Paths == UNION {PathsOfLength(n) : n \in 0..MaxPath}

(* a TrackMarker at the origin, with and without angleDeg *)
Markers == {[x |-> Q(0), y |-> Q(0), angleDeg |-> a] : a \in {Null, Some(0)}}

CrossingCalls ==
    {[fn |-> "getCrossingTime", samples |-> path, marker |-> m, result |-> Null] :
        path \in Paths, m \in Markers}

(* the Start, Sector and Finish markers of a course, in course order: two   *)
(* gate lines one metre apart, each of which may be marked more than once   *)
MaxMarkers == 3
GateLines == {[x |-> Q(0), y |-> Q(gy), angleDeg |-> Null] : gy \in {0, 1}}

RECURSIVE MarkersOfLength(_)
MarkersOfLength(n) ==
    IF n = 0 THEN {<<>>}
    ELSE {Append(ms, m) : ms \in MarkersOfLength(n - 1), m \in GateLines}

MarkerLists == UNION {MarkersOfLength(n) : n \in 1..MaxMarkers}

(* movements around one gate: end points beside it, on its line above and  *)
(* below it, on it and on its ends; the gate faces either way               *)
GatePoints == {Pt(px, py) : px \in 2..4, py \in -1..4}
TestGates == {[position |-> Pt(3, 1), width |-> 2, rotation |-> r] : r \in {0, 180}}

GateCalls ==
    {[fn |-> "doesLineCrossGate", p1 |-> a, p2 |-> b, gate |-> g, result |-> Null] :
        a \in GatePoints, b \in GatePoints, g \in TestGates}

(* the runs timed against them drive up and down across both lines, with   *)
(* samples on the first line and samples without a position                 *)
RunPoints == {QPt(Q(0), Q(-2)), QPt(Q(0), Q(0)), QPt(Q(0), Q(2)), QPt(NaN, NaN)}

RECURSIVE RunsOfLength(_)
RunsOfLength(n) ==
    IF n = 0 THEN {<<>>}
    ELSE {Append(run, [time |-> Q(n - 1), x |-> pt.x, y |-> pt.y]) :
             run \in RunsOfLength(n - 1), pt \in RunPoints}

Runs == UNION {RunsOfLength(n) : n \in 0..MaxPath}

ResultCalls ==
    {[fn |-> "sectorResults", samples |-> run, markers |-> ms, result |-> Null] :
        run \in Runs, ms \in MarkerLists}

Pending(fn) == call.fn = fn /\ call.result = Null
Returned(fn) == call.fn = fn /\ call.result # Null
Return(v) == call' = [call EXCEPT !.result = Some(v)]

GetSampleAtTime ==
    /\ Pending("getSampleAtTime")
    /\ Return(getSampleAtTime(call.samples, call.time))
    /\ UNCHANGED <<geoVars, playVars, editVars>>

InterpolateValue ==
    /\ Pending("interpolateValue")
    /\ Return(interpolateValue(call.v0, call.v1, call.t, call.valid0, call.valid1))
    /\ UNCHANGED <<geoVars, playVars, editVars>>

InterpolateAngle ==
    /\ Pending("interpolateAngle")
    /\ Return(interpolateAngle(call.a0, call.a1, call.t, call.valid0, call.valid1))
    /\ UNCHANGED <<geoVars, playVars, editVars>>

(* the result is the returned `number | null` itself *)
GetCrossingTime ==
    /\ Pending("getCrossingTime")
    /\ call' = [call EXCEPT !.result = Some(getCrossingTime(call.samples, call.marker))]
    /\ UNCHANGED <<geoVars, playVars, editVars>>

DoesLineCrossGate ==
    /\ Pending("doesLineCrossGate")
    /\ Return(doesLineCrossGate(call.p1, call.p2, call.gate))
    /\ UNCHANGED <<geoVars, playVars, editVars>>

(* the sectorResults memo computed for one run *)
SectorResults ==
    /\ Pending("sectorResults")
    /\ Return(sectorResults(call.samples, call.markers))
    /\ UNCHANGED <<geoVars, playVars, editVars>>

----------------------------------------------------------------------------
(* useCourse: the course under edit and its undo history.  An element is    *)
(* its id and one coordinate, a sector its id and its timing switch, the    *)
(* metadata the course name; timestamps are left out.  Each operation is    *)
(* called from its own user event, so it reads the state the one before it  *)
(* committed.                                                               *)
HistoryLimit == 50
MaxOps == 3         \* operations of the hook called in one session

Element(px) == [id |-> "e1", x |-> px]
EditorSector(enabled) == [id |-> "s1", timingEnabled |-> enabled]

createEmptyCourse ==
    [metadata |-> [name |-> "Untitled Course"], elements |-> <<>>, sectors |-> <<>>]

(* an imported course *)
ImportedCourse ==
    [metadata |-> [name |-> "Imported"], elements |-> <<Element(1)>>,
     sectors |-> <<EditorSector(TRUE)>>]

EditorInitial == [course |-> createEmptyCourse, history |-> <<>>, historyIndex |-> -1]

(* mutant: the history is never trimmed *)
saveToHistory_unbounded(ed, action) ==
    LET entry == [action |-> action, elements |-> ed.course.elements,
                  sectors |-> ed.course.sectors]
        newHistory == Append(SubSeq(ed.history, 1, ed.historyIndex + 1), entry)
    IN  [ed EXCEPT !.history = newHistory, !.historyIndex = Len(newHistory) - 1]

(* the entry holds the elements and sectors of the course as it is when the *)
(* edit is called, before the edit's own change                             *)
saveToHistory(ed, action) ==
    LET entry == [action |-> action, elements |-> ed.course.elements,
                  sectors |-> ed.course.sectors]
        pushed == Append(SubSeq(ed.history, 1, ed.historyIndex + 1), entry)
        newHistory == IF Len(pushed) > HistoryLimit THEN Tail(pushed) ELSE pushed
    IN  [ed EXCEPT !.history = newHistory, !.historyIndex = Len(newHistory) - 1]

addElement(ed, element) ==
    [saveToHistory(ed, "Add element") EXCEPT !.course.elements = Append(@, element)]

updateElement(ed, id, px) ==
    [saveToHistory(ed, "Update element") EXCEPT
        !.course.elements = [i \in DOMAIN @ |-> IF @[i].id = id THEN [@[i] EXCEPT !.x = px]
                                                ELSE @[i]]]

removeElement(ed, id) ==
    [saveToHistory(ed, "Remove element") EXCEPT
        !.course.elements = SelectSeq(@, LAMBDA el : el.id # id)]

removeElements(ed, ids) ==
    [saveToHistory(ed, "Remove elements") EXCEPT
        !.course.elements = SelectSeq(@, LAMBDA el : el.id \notin ids)]

addSector(ed, sector) ==
    [saveToHistory(ed, "Add sector") EXCEPT !.course.sectors = Append(@, sector)]

updateSector(ed, id, enabled) ==
    [saveToHistory(ed, "Update sector") EXCEPT
        !.course.sectors = [i \in DOMAIN @ |->
                               IF @[i].id = id THEN [@[i] EXCEPT !.timingEnabled = enabled]
                               ELSE @[i]]]

removeSector(ed, id) ==
    [saveToHistory(ed, "Remove sector") EXCEPT
        !.course.sectors = SelectSeq(@, LAMBDA sec : sec.id # id)]

updateMetadata(ed, name) == [ed EXCEPT !.course.metadata.name = name]

(* history[historyIndex], with the sequence counted from 1 *)
undo(ed) ==
    IF ed.historyIndex < 0 THEN ed
    ELSE LET entry == ed.history[ed.historyIndex + 1]
         IN  [ed EXCEPT !.course.elements = entry.elements,
                        !.course.sectors = entry.sectors,
                        !.historyIndex = @ - 1]

(* history[historyIndex + 1] *)
redo(ed) ==
    IF ed.historyIndex >= Len(ed.history) - 1 THEN ed
    ELSE LET entry == ed.history[ed.historyIndex + 2]
         IN  [ed EXCEPT !.course.elements = entry.elements,
                        !.course.sectors = entry.sectors,
                        !.historyIndex = @ + 1]

canUndo(ed) == ed.historyIndex >= 0
canRedo(ed) == ed.historyIndex < Len(ed.history) - 1

setCourse(ed, newCourse) == [course |-> newCourse, history |-> <<>>, historyIndex |-> -1]
clearCourse(ed) == [course |-> createEmptyCourse, history |-> <<>>, historyIndex |-> -1]

(* the editor after n <= HistoryLimit calls of addElement on the empty       *)
(* course: entry k holds the k - 1 elements added before it                 *)
Edited(n) ==
    [course |-> [createEmptyCourse EXCEPT !.elements = [i \in 1..n |-> Element(0)]],
     history |-> [k \in 1..n |-> [action |-> "Add element",
                                   elements |-> [i \in 1..(k - 1) |-> Element(0)],
                                   sectors |-> <<>>]],
     historyIndex |-> n - 1]

Editor == [course |-> course, history |-> history, historyIndex |-> historyIndex]
Content(c) == [elements |-> c.elements, sectors |-> c.sectors]

EditConstructed ==
    /\ course = EditorInitial.course
    /\ history = EditorInitial.history
    /\ historyIndex = EditorInitial.historyIndex
    /\ ops = 0
    /\ trail = <<>>
    /\ afterEdit = Null

(* the operation committed: the hook's state and the record of the call *)
Did(ed, kind) ==
    /\ course' = ed.course
    /\ history' = ed.history
    /\ historyIndex' = ed.historyIndex
    /\ ops' = ops + 1
    /\ trail' = LET all == Append(trail, kind)
                IN  IF Len(all) > 3 THEN Tail(all) ELSE all
    /\ afterEdit' = IF kind = "edit" THEN Some(Content(ed.course)) ELSE afterEdit
    /\ UNCHANGED <<geoVars, playVars, call>>

AddElement ==
    /\ ops < MaxOps
    /\ \E px \in {0} : Did(addElement(Editor, Element(px)), "edit")

UpdateElement ==
    /\ ops < MaxOps
    /\ \E px \in {1} : Did(updateElement(Editor, "e1", px), "edit")

RemoveElement ==
    /\ ops < MaxOps
    /\ Did(removeElement(Editor, "e1"), "edit")

RemoveElements ==
    /\ ops < MaxOps
    /\ Did(removeElements(Editor, {"e1"}), "edit")

AddSector ==
    /\ ops < MaxOps
    /\ Did(addSector(Editor, EditorSector(TRUE)), "edit")

UpdateSector ==
    /\ ops < MaxOps
    /\ \E enabled \in {FALSE} : Did(updateSector(Editor, "s1", enabled), "edit")

RemoveSector ==
    /\ ops < MaxOps
    /\ Did(removeSector(Editor, "s1"), "edit")

(* no history entry *)
UpdateMetadata ==
    /\ ops < MaxOps
    /\ Did(updateMetadata(Editor, "Renamed"), "metadata")

Undo ==
    /\ ops < MaxOps
    /\ Did(undo(Editor), "undo")

Redo ==
    /\ ops < MaxOps
    /\ Did(redo(Editor), "redo")

SetCourse ==
    /\ ops < MaxOps
    /\ Did(setCourse(Editor, ImportedCourse), "setCourse")

ClearCourse ==
    /\ ops < MaxOps
    /\ Did(clearCourse(Editor), "clearCourse")

EditorNext ==
    \/ AddElement \/ UpdateElement \/ RemoveElement \/ RemoveElements
    \/ AddSector \/ UpdateSector \/ RemoveSector \/ UpdateMetadata
    \/ Undo \/ Redo \/ SetCourse \/ ClearCourse

----------------------------------------------------------------------------
(* The two hooks are independent: each specification runs one of them and   *)
(* leaves the other as constructed.                                         *)
GeoInit ==
    /\ sectors \in Courses /\ GeoConstructed /\ PlayConstructed /\ call = NoCall
    /\ EditConstructed

GeoSpec == GeoInit /\ [][GeoNext]_vars

PlayInit ==
    /\ sectors = <<>> /\ GeoConstructed /\ PlayConstructed /\ call = NoCall
    /\ EditConstructed

PlaySpec == PlayInit /\ [][PlayNext]_vars

(* The application as it is wired: App.tsx takes only state, currentSamples *)
(* and setState from usePlayback, and PlaybackControls drives playback      *)
(* through that setState alone.                                             *)
ControlsNext ==
    \/ Render \/ FlushEffects \/ Frame \/ Idle
    \/ handlePlayPause \/ handleSeek \/ handleSpeedChange \/ handleLoopToggle

ControlsSpec == PlayInit /\ [][ControlsNext]_vars

(* the pure functions, each called once on inputs drawn from the sets above *)
CallInit ==
    /\ sectors = <<>> /\ GeoConstructed /\ PlayConstructed /\ EditConstructed
    /\ call \in UNION {SampleCalls, ValueCalls, AngleCalls, CrossingCalls, ResultCalls,
                       GateCalls}

CallNext ==
    \/ GetSampleAtTime \/ InterpolateValue \/ InterpolateAngle \/ GetCrossingTime
    \/ SectorResults \/ DoesLineCrossGate

CallSpec == CallInit /\ [][CallNext]_vars

(* the course editor, followed from its construction and from the point     *)
(* where HistoryLimit elements have been added one after the other          *)
EditorInit ==
    /\ sectors = <<>> /\ GeoConstructed /\ PlayConstructed /\ call = NoCall
    /\ \E ed \in {EditorInitial, Edited(HistoryLimit)} :
          /\ course = ed.course
          /\ history = ed.history
          /\ historyIndex = ed.historyIndex
    /\ ops = 0
    /\ trail = <<>>
    /\ afterEdit = Null

EditorSpec == EditorInit /\ [][EditorNext]_vars

----------------------------------------------------------------------------
(* Reading the logs *)
SectorIds == {sectors[i].id : i \in 1..Len(sectors)}
TimingEnabledIds == {sectors[i].id : i \in {k \in 1..Len(sectors) : sectors[k].timingEnabled}}
SectorById(id) == sectors[CHOOSE i \in 1..Len(sectors) : sectors[i].id = id]
EventsOf(id) == SelectSeq(events, LAMBDA e : e.sectorId = id)
TimesOf(id) == SelectSeq(sectorTimes, LAMBDA st : st.sectorId = id)
IsEvent(e, id, eventType) == e.sectorId = id /\ e.eventType = eventType

(* the exits of one sector that directly follow an enter of that sector *)
MatchedExits(id) ==
    LET log == EventsOf(id)
    IN  {i \in 2..Len(log) : log[i].eventType = "exit" /\ log[i - 1].eventType = "enter"}

EventsTimeOrdered ==
    \A i \in 1..Len(events) : \A k \in i..Len(events) :
        events[i].timestamp <= events[k].timestamp

----------------------------------------------------------------------------
(* C1: sectors accumulate independently.  When the log since the last reset *)
(* is enter A at a, enter B at b, exit A at c, exit B at d with a <= b <= c *)
(* <= d, exactly two SectorTimes exist: A with entryTime a and duration     *)
(* c - a, then B with entryTime b and duration d - b.                       *)
C1_IndependentSectors ==
    \A A \in TimingEnabledIds, B \in TimingEnabledIds :
        ( /\ A # B
          /\ Len(events) = 4
          /\ IsEvent(events[1], A, "enter") /\ IsEvent(events[2], B, "enter")
          /\ IsEvent(events[3], A, "exit") /\ IsEvent(events[4], B, "exit")
          /\ EventsTimeOrdered )
        => /\ Len(sectorTimes) = 2
           /\ sectorTimes[1].sectorId = A
           /\ sectorTimes[1].entryTime = events[1].timestamp
           /\ sectorTimes[1].duration = events[3].timestamp - events[1].timestamp
           /\ sectorTimes[2].sectorId = B
           /\ sectorTimes[2].entryTime = events[2].timestamp
           /\ sectorTimes[2].duration = events[4].timestamp - events[2].timestamp

(* C2: from the reset state with a single timing-enabled sector, enter at   *)
(* t1 then exit at t2 leaves exactly one SectorTime with entryTime t1,      *)
(* exitTime t2, duration t2 - t1, and deltaFromTarget = duration - target   *)
(* whenever the sector has a target.                                        *)
C2_EnterExitOneSectorTime ==
    ( /\ Cardinality(TimingEnabledIds) = 1
      /\ Len(events) = 2
      /\ events[1].eventType = "enter"
      /\ events[2].eventType = "exit" )
    => LET S == events[1].sectorId
           t1 == events[1].timestamp
           t2 == events[2].timestamp
           target == SectorById(S).targetTime
       IN  sectorTimes =
             << [sectorId |-> S, sectorName |-> SectorById(S).name,
                 entryTime |-> t1, exitTime |-> t2, duration |-> t2 - t1,
                 deltaFromTarget |->
                     IF target # Null THEN Some(t2 - t1 - Val(target)) ELSE Null] >>

(* C2 apart from a target of 0: the same statement with deltaFromTarget     *)
(* required only for a target that is present and not 0.                    *)
C2_ExceptZeroTarget ==
    ( /\ Cardinality(TimingEnabledIds) = 1
      /\ Len(events) = 2
      /\ events[1].eventType = "enter"
      /\ events[2].eventType = "exit" )
    => LET S == events[1].sectorId
           t1 == events[1].timestamp
           t2 == events[2].timestamp
           target == SectorById(S).targetTime
       IN  /\ Len(sectorTimes) = 1
           /\ sectorTimes[1].sectorId = S
           /\ sectorTimes[1].entryTime = t1
           /\ sectorTimes[1].exitTime = t2
           /\ sectorTimes[1].duration = t2 - t1
           /\ (target # Null /\ Val(target) # 0)
                 => sectorTimes[1].deltaFromTarget = Some(t2 - t1 - Val(target))

(* C3: an exit of a sector that has no open entry of its own appends no     *)
(* SectorTime, so a sector never holds more SectorTimes than it has exits   *)
(* that directly follow one of its own enters.                              *)
C3_UnmatchedExitDropped ==
    \A id \in SectorIds : Len(TimesOf(id)) <= Cardinality(MatchedExits(id))

(* C4: the event log restricted to one sector alternates enter, exit,       *)
(* enter, ... beginning with enter.                                         *)
C4_EventsAlternate ==
    \A id \in SectorIds :
        LET log == EventsOf(id)
        IN  \A i \in 1..Len(log) :
                log[i].eventType = IF i % 2 = 1 THEN "enter" ELSE "exit"

(* C5: the first updatePosition after construction or reset (no previous    *)
(* position) produces no enter and no exit transition.                      *)
C5_FirstUpdateSilent ==
    [][(previousPositionRef = Null /\ previousPositionRef' # Null)
          => (events' = <<>> /\ sectorTimes' = <<>> /\ entryTimeRef' = Null)]_vars

(* C6 as stated: every SectorTime has duration >= 0, whatever timestamps    *)
(* the caller passes.                                                       *)
C6_DurationNonNegative ==
    \A i \in 1..Len(sectorTimes) :
        sectorTimes[i].duration >= 0 /\ sectorTimes[i].entryTime <= sectorTimes[i].exitTime

(* C6 amended: every SectorTime has duration >= 0 while the timestamps of   *)
(* the logged events are non-decreasing (as they are when updatePosition is *)
(* called with non-decreasing timestamps).                                  *)
C6_DurationNonNegativeOrdered ==
    EventsTimeOrdered => C6_DurationNonNegative

C6_Witness ==
    /\ EventsTimeOrdered
    /\ \E i \in 1..Len(sectorTimes) : sectorTimes[i].duration > 0

(* C7: reset returns the instance to its initial value, and the calls made  *)
(* after it leave the instance exactly as they leave a fresh one.           *)
C7_ResetIsFresh ==
    epoch = "reset" => Geo = fresh

C7_Witness ==
    /\ epoch = "reset"
    /\ Len(sectorTimes) > 0
    /\ activeSectorId # Null

----------------------------------------------------------------------------
(* Reading the record of ticks *)
NewTime(r) == r.prev.currentTime + r.deltaMs * r.speed
OnlyAnimate(q) == \A i \in 1..Len(q) : q[i].kind = "animate"

(* C8: a tick taken while playing with looping on whose newTime reaches the *)
(* duration sets currentTime to newTime modulo duration and leaves          *)
(* isPlaying true.  speed, looping and duration are the values the tick     *)
(* reads.                                                                   *)
C8_LoopWraps ==
    \A i \in 1..Len(ticks) :
        LET r == ticks[i]
        IN  (r.prev.isPlaying /\ r.looping /\ NewTime(r) >= r.duration)
            => /\ r.next.currentTime = NewTime(r) % r.duration
               /\ r.next.isPlaying
               /\ r.next.looping = r.prev.looping
               /\ r.next.playbackSpeed = r.prev.playbackSpeed

(* duration 10, currentTime 9.5, delta 1000 ms, speed 1 gives 0.5 *)
C8_Witness ==
    /\ Len(ticks) = 1
    /\ ticks[1].prev.isPlaying /\ ticks[1].prev.looping /\ ticks[1].looping
    /\ ticks[1].prev.currentTime = Seconds(10) - 4
    /\ ticks[1].deltaMs = 2
    /\ ticks[1].speed = Multiplier(1)
    /\ ticks[1].duration = Seconds(10)
    /\ state.currentTime = 4
    /\ state.isPlaying

(* C9: a tick taken while playing with looping off whose newTime reaches    *)
(* the duration sets currentTime to exactly the duration and isPlaying to   *)
(* false; a tick run on a state that is not playing returns that state, and *)
(* while playback is stopped a render of nothing but ticks leaves the       *)
(* committed state as it is.                                                *)
C9_StopAtEnd ==
    [][ /\ \A i \in 1..Len(ticks') :
              LET r == ticks'[i]
              IN  /\ (r.prev.isPlaying /\ ~r.looping /\ NewTime(r) >= r.duration)
                        => r.next = [r.prev EXCEPT !.isPlaying = FALSE,
                                                   !.currentTime = r.duration]
                  /\ ~r.prev.isPlaying => r.next = r.prev
        /\ (~state.isPlaying /\ OnlyAnimate(queue)) => state' = state
      ]_vars

(* the stopping tick and a later tick run by one render *)
C9_Witness ==
    /\ Len(ticks) = 2
    /\ ticks[1].prev.isPlaying /\ ~ticks[1].looping
    /\ NewTime(ticks[1]) > ticks[1].duration
    /\ ticks[2].prev = ticks[1].next
    /\ state.currentTime = maxDurationRef
    /\ ~state.isPlaying

(* C10: after every committed change of isPlaying from false to true the    *)
(* first frame callback queues no tick and only records its timestamp, and  *)
(* the tick a later callback queues is measured from that first callback or *)
(* a later one (the second callback's from the first exactly).              *)
C10_FirstFrameAnchors ==
    /\ frames.n = 1 => (frames.delta = 0 /\ lastFrameTime = frames.first)
    /\ (frames.n = 2 /\ frames.delta > 0)
          => (frames.ref = frames.first /\ frames.delta = lastFrameTime - frames.first)
    /\ (frames.n >= 2 /\ frames.delta > 0) => frames.ref >= frames.first

(* the second callback after a resume *)
C10_Witness ==
    /\ frames.plays = 2
    /\ frames.n = 2
    /\ frames.delta > 0
    /\ frames.first > 2

----------------------------------------------------------------------------
(* the queued updates that can set isPlaying to true *)
Resumes(q) == \E i \in 1..Len(q) : q[i].kind \in {"play", "handlePlayPause"}

(* a step that is a render *)
IsRender == queue # <<>> /\ queue' = <<>>

(* C11: no ghost tick.  A tick that a render runs on a state whose          *)
(* isPlaying is false changes nothing, whenever its frame callback was      *)
(* scheduled; and while isPlaying is committed as false, a render whose     *)
(* queue holds no update that resumes playback commits the same currentTime *)
(* for every tick it runs, with isPlaying still false.                      *)
C11_NoGhostTick ==
    [][ IsRender =>
          /\ \A i \in 1..Len(ticks') :
                ~ticks'[i].prev.isPlaying => ticks'[i].next = ticks'[i].prev
          /\ (~state.isPlaying /\ ~Resumes(queue))
                => /\ \A i \in 1..Len(ticks') :
                         ticks'[i].next.currentTime = ticks'[i].prev.currentTime
                   /\ ~state'.isPlaying
      ]_vars

(* a frame callback served after the pause was committed and before the     *)
(* animation effect cancelled it: its tick was run and changed nothing      *)
C11_Witness ==
    /\ Len(ticks) = 1
    /\ ticks[1].deltaMs > 0
    /\ ~ticks[1].prev.isPlaying
    /\ ticks[1].prev.currentTime > 0
    /\ state = ticks[1].prev
    /\ rafPending = {}
    /\ animationRef = Null

----------------------------------------------------------------------------
(* C12: every tick a render runs uses the playbackSpeed and looping of the  *)
(* PlaybackState committed before that render, and the duration of the      *)
(* selected run; the refs the tick reads hold the committed values whenever *)
(* no effect is pending, that is, at every render.                          *)
C12_TicksReadCommitted ==
    [][ /\ pendingEffects = {}
              => /\ playbackSpeedRef = state.playbackSpeed
                 /\ loopingRef = state.looping
        /\ IsRender =>
              \A i \in 1..Len(ticks') :
                  /\ ticks'[i].speed = state.playbackSpeed
                  /\ ticks'[i].looping = state.looping
                  /\ ticks'[i].duration = RunDuration
      ]_vars

(* a tick that advanced the clock after both the speed and the looping flag *)
(* had been changed, using the new values                                   *)
C12_Witness ==
    /\ Len(ticks) = 1
    /\ ticks[1].prev.isPlaying
    /\ ticks[1].prev.playbackSpeed = Multiplier(2)
    /\ ~ticks[1].prev.looping
    /\ ticks[1].speed = Multiplier(2)
    /\ ~ticks[1].looping
    /\ state.currentTime = ticks[1].deltaMs * Multiplier(2)

----------------------------------------------------------------------------
(* C13: whenever the committed PlaybackState has currentTime = T, the       *)
(* committed current sample of the selected loaded run is the interpolation *)
(* of that run at T.                                                        *)
C13_SampleMatchesTime ==
    currentSamples = getSampleAtTime(PlaybackSamples, state.currentTime)

----------------------------------------------------------------------------
(* C14: interpolation idempotence.  For a strictly increasing sample        *)
(* sequence and every sample s of it, the first, the last and the interior  *)
(* ones, getSampleAtTime at s.time returns s, every value and validity flag *)
(* as it is in s.                                                           *)
C14_Idempotent ==
    Returned("getSampleAtTime") =>
        \A i \in 1..Len(call.samples) :
            call.time = call.samples[i].time => Val(call.result) = call.samples[i]

(* the query at the interior sample of three, one with flags set to false *)
C14_Witness ==
    /\ Returned("getSampleAtTime")
    /\ Len(call.samples) = 3
    /\ call.time = call.samples[2].time
    /\ call.samples[2].valid.x = Some(FALSE)
    /\ call.samples[1].valid.x = Some(TRUE)
    /\ Val(call.result) = call.samples[2]

(* C15: for a non-empty sorted sequence a query time below the first        *)
(* sample's time returns the first sample and a query time above the last   *)
(* sample's time returns the last sample, each unchanged, whatever the      *)
(* length of the sequence.                                                  *)
C15_ClampsToBoundary ==
    (Returned("getSampleAtTime") /\ Len(call.samples) > 0) =>
        LET n == Len(call.samples)
        IN  /\ call.time < call.samples[1].time
                  => Val(call.result) = call.samples[1]
            /\ call.time > call.samples[n].time
                  => Val(call.result) = call.samples[n]

(* a query past the end of three samples *)
C15_Witness ==
    /\ Returned("getSampleAtTime")
    /\ Len(call.samples) = 3
    /\ call.time > call.samples[3].time
    /\ call.samples[3] # call.samples[2]
    /\ Val(call.result) = call.samples[3]

(* C16: getSampleAtTime over an empty sequence returns a sample whose eight *)
(* fields are all 0 and all flagged invalid, where a missing validity flag  *)
(* means valid.                                                             *)
C16_EmptyIsInvalidZero ==
    (Returned("getSampleAtTime") /\ Len(call.samples) = 0) =>
        \A f \in Fields :
            /\ Val(call.result)[f] = Q(0)
            /\ ~flagOrTrue(Val(call.result).valid[f])

(* what the propagation rule of C17 gives for one field *)
Propagated(v0, v1, t, valid0, valid1) ==
    IF valid0 /\ valid1
    THEN [value |-> QNorm(v0[1] * v1[2] * t[2] + (v1[1] * v0[2] - v0[1] * v1[2]) * t[1],
                          v0[2] * v1[2] * t[2]),
          valid |-> TRUE]
    ELSE IF valid0 THEN [value |-> v0, valid |-> TRUE]
    ELSE IF valid1 THEN [value |-> v1, valid |-> TRUE]
    ELSE [value |-> Q(0), valid |-> FALSE]

(* C17: validity propagation for a query strictly between two bracketing    *)
(* samples, for each scalar field on its own: both end points valid give    *)
(* v0 + (v1 - v0) * t, valid; both invalid give 0, invalid; exactly one     *)
(* valid gives that end point's raw value, valid, for every t in (0, 1).    *)
(* heading follows the same rule except that its blend is circular.         *)
C17_ValidityPropagation ==
    /\ Returned("interpolateValue") =>
          Val(call.result) = Propagated(call.v0, call.v1, call.t,
                                 flagOrTrue(call.valid0), flagOrTrue(call.valid1))
    /\ Returned("getSampleAtTime") =>
          \A i \in 1..(Len(call.samples) - 1) :
              LET s0 == call.samples[i]
                  s1 == call.samples[i + 1]
                  t == QNorm(call.time - s0.time, s1.time - s0.time)
                  out == Val(call.result)
              IN  (s0.time < call.time /\ call.time < s1.time) =>
                     /\ out.time = call.time
                     /\ \A f \in Fields :
                          LET valid0 == flagOrTrue(s0.valid[f])
                              valid1 == flagOrTrue(s1.valid[f])
                              want == Propagated(s0[f], s1[f], t, valid0, valid1)
                          IN  /\ out.valid[f] = Some(want.valid)
                              /\ (f # "heading" \/ ~(valid0 /\ valid1))
                                    => out[f] = want.value

(* v0 invalid, v1 = 42 valid: 42, valid *)
C17_Witness ==
    /\ Returned("interpolateValue")
    /\ call.valid0 = Some(FALSE)
    /\ call.valid1 = Null
    /\ call.v0 = Q(-7)
    /\ call.v1 = Q(42)
    /\ call.t = QNorm(1, 4)
    /\ Val(call.result) = [value |-> Q(42), valid |-> TRUE]

(* x modulo m for a rational x and a positive integer m, in [0, m) *)
QMod(x, m) == QSub(x, Q(m * (x[1] \div (x[2] * m))))

(* a1 - a0 wrapped to the half-open range [-180, 180) *)
WrappedDifference(a0, a1) == QSub(QMod(QAdd(QSub(a1, a0), Q(180)), 360), Q(180))

(* C18: between two valid headings a0, a1 in [0, 360) at t in [0, 1] the    *)
(* result is a0 + t * d renormalised to [0, 360), d being a1 - a0 wrapped   *)
(* to [-180, 180), and the result lies in [0, 360).                         *)
C18_ShortestArc ==
    Returned("interpolateAngle") =>
        LET d == WrappedDifference(call.a0, call.a1)
            out == Val(call.result)
        IN  /\ out.valid
            /\ out.value = QMod(QAdd(call.a0, QMul(call.t, d)), 360)
            /\ QLe(Q(0), out.value) /\ QLt(out.value, Q(360))

(* C18 apart from opposite headings: the same statement for every pair of   *)
(* headings whose difference a1 - a0 is not exactly 180.                    *)
C18_ExceptHalfTurn ==
    (Returned("interpolateAngle") /\ QSub(call.a1, call.a0) # Q(180)) => C18_ShortestArc

----------------------------------------------------------------------------
(* the timing-enabled sectors that have a polygon and no gate *)
PolygonSectors ==
    {i \in 1..Len(sectors) :
        /\ sectors[i].timingEnabled
        /\ sectors[i].polygon # Null
        /\ sectors[i].entryGate = Null /\ sectors[i].exitGate = Null}

(* the event types a step appends to the log for one sector *)
Appended(id) ==
    LET new == SubSeq(events', Len(events) + 1, Len(events'))
        own == SelectSeq(new, LAMBDA e : e.sectorId = id)
    IN  [i \in 1..Len(own) |-> own[i].eventType]

(* C19: with a previous position present, a timing-enabled polygon sector   *)
(* fires enter exactly when the previous position is outside and the        *)
(* current one inside, exit exactly when the previous is inside and the     *)
(* current outside, and nothing otherwise, inside being the crossing-number *)
(* parity; the square contains (5,5), excludes (15,5), and the move from    *)
(* (5,-1) to (5,5) fires enter.                                             *)
C19_PolygonTransitions ==
    [][ /\ isPointInPolygon(Pt(5, 5), Square)
        /\ ~isPointInPolygon(Pt(15, 5), Square)
        /\ ~isPointInPolygon(Pt(5, -1), Square)
        /\ (previousPositionRef # Null /\ previousPositionRef' # Null) =>
              \A i \in PolygonSectors :
                  LET was == isPointInPolygon(Val(previousPositionRef),
                                              Val(sectors[i].polygon))
                      is == isPointInPolygon(Val(previousPositionRef'),
                                             Val(sectors[i].polygon))
                  IN  Appended(sectors[i].id) =
                          IF ~was /\ is THEN <<"enter">>
                          ELSE IF was /\ ~is THEN <<"exit">>
                          ELSE <<>>
      ]_vars

(* the square entered at (5,5) by the second call or a later one, the calls *)
(* before it having been outside                                            *)
C19_Witness ==
    /\ sectors = SquareCourse
    /\ startTimeRef = Some(0)
    /\ events = <<GeofenceEvent("S", "enter", 1, Pt(5, 5))>>
    /\ activeSectorId = Some("S")

----------------------------------------------------------------------------
(* orientation of c against the line from a to b: its sign *)
Side(a, b, c) ==
    LET o == QSub(QMul(QSub(b.x, a.x), QSub(c.y, a.y)),
                  QMul(QSub(b.y, a.y), QSub(c.x, a.x)))
    IN  IF o[1] > 0 THEN 1 ELSE IF o[1] < 0 THEN -1 ELSE 0

(* the movement from sample i to sample i + 1 meets the gate in one point:  *)
(* the two segments are not parallel and each has its end points on both    *)
(* sides of (or on) the other                                               *)
MeetsGate(samples, g, i) ==
    LET s0 == QPt(samples[i].x, samples[i].y)
        s1 == QPt(samples[i + 1].x, samples[i + 1].y)
        shifted == QPt(QAdd(s0.x, QSub(g[2].x, g[1].x)), QAdd(s0.y, QSub(g[2].y, g[1].y)))
    IN  /\ isFinite(s0.x) /\ isFinite(s0.y) /\ isFinite(s1.x) /\ isFinite(s1.y)
        /\ Side(s0, shifted, s1) # 0
        /\ Side(g[1], g[2], s0) * Side(g[1], g[2], s1) <= 0
        /\ Side(s0, s1, g[1]) * Side(s0, s1, g[2]) <= 0

(* C20: for the first consecutive pair (s0, s1) whose movement meets the    *)
(* gate, getCrossingTime returns s0.time + u * (s1.time - s0.time) with u   *)
(* in [0, 1] the parameter of the meeting point along the movement: the     *)
(* point at u lies on the gate, the result lies in [s0.time, s1.time], is   *)
(* the midpoint time when s0 and s1 are equally far on either side, and is  *)
(* the time of a sample of the pair that lies on the gate.                  *)
C20_CrossingTime ==
    Returned("getCrossingTime") =>
        LET samples == call.samples
            g == << QPt(QSub(call.marker.x, halfGate), call.marker.y),
                    QPt(QAdd(call.marker.x, halfGate), call.marker.y) >>
            out == Val(call.result)
        IN  \A i \in 1..(Len(samples) - 1) :
                (MeetsGate(samples, g, i) /\ \A k \in 1..(i - 1) : ~MeetsGate(samples, g, k))
                => LET s0 == samples[i]
                       s1 == samples[i + 1]
                       time == Val(out)
                       u == QDiv(QSub(time, s0.time), QSub(s1.time, s0.time))
                       at == QPt(QAdd(s0.x, QMul(u, QSub(s1.x, s0.x))),
                                 QAdd(s0.y, QMul(u, QSub(s1.y, s0.y))))
                   IN  /\ out # Null
                       /\ QLe(Q(0), u) /\ QLe(u, Q(1))
                       /\ QLe(s0.time, time) /\ QLe(time, s1.time)
                       /\ Side(g[1], g[2], at) = 0
                       /\ QLe(g[1].x, at.x) /\ QLe(at.x, g[2].x)
                       /\ (s0.x = s1.x /\ QAdd(s0.y, s1.y) = QMul(Q(2), call.marker.y))
                             => time = QDiv(QAdd(s0.time, s1.time), Q(2))
                       /\ s1.y = call.marker.y => time = s1.time
                       /\ s0.y = call.marker.y => time = s0.time

(* samples at t = 0, 1, 2 driven straight across the gate, the second one   *)
(* on it: 1.0                                                               *)
C20_Witness ==
    /\ Returned("getCrossingTime")
    /\ Len(call.samples) = 3
    /\ QPt(call.samples[1].x, call.samples[1].y) = QPt(Q(0), Q(-2))
    /\ QPt(call.samples[2].x, call.samples[2].y) = QPt(Q(0), Q(0))
    /\ QPt(call.samples[3].x, call.samples[3].y) = QPt(Q(0), Q(2))
    /\ call.marker.angleDeg = Null
    /\ Val(call.result) = Some(Q(1))

(* a gate crossed half way between two samples *)
C20_WitnessMidpoint ==
    /\ Returned("getCrossingTime")
    /\ Len(call.samples) = 3
    /\ QPt(call.samples[1].x, call.samples[1].y) = QPt(Q(5), Q(-2))
    /\ QPt(call.samples[2].x, call.samples[2].y) = QPt(Q(0), Q(-2))
    /\ QPt(call.samples[3].x, call.samples[3].y) = QPt(Q(0), Q(2))
    /\ Val(call.result) = Some(QNorm(3, 2))

----------------------------------------------------------------------------
(* Plane geometry, written with parameters along the segments *)
Diff(p, q) == QPt(QSub(p.x, q.x), QSub(p.y, q.y))
Cross(u, v) == QSub(QMul(u.x, v.y), QMul(u.y, v.x))
Dot(u, v) == QAdd(QMul(u.x, v.x), QMul(u.y, v.y))
Between01(q) == QLe(Q(0), q) /\ QLe(q, Q(1))
QMin(a, b) == IF QLe(a, b) THEN a ELSE b
QMax(a, b) == IF QLe(a, b) THEN b ELSE a

(* the closed segments ab and cd have a point in common: a + t(b - a) =      *)
(* c + u(d - c) for some t and u in [0, 1]                                  *)
SegmentsMeet(a, b, c, d) ==
    LET r == Diff(b, a)
        s == Diff(d, c)
        det == Cross(r, s)
        zero == QPt(Q(0), Q(0))
        along(p, o, v) == QDiv(Dot(Diff(p, o), v), Dot(v, v))
    IN  IF det # Q(0)
        THEN /\ Between01(QDiv(Cross(Diff(c, a), s), det))
             /\ Between01(QDiv(Cross(Diff(c, a), r), det))
        ELSE IF r = zero /\ s = zero THEN a = c
        ELSE IF r = zero
        THEN Cross(Diff(a, c), s) = Q(0) /\ Between01(along(a, c, s))
        ELSE /\ Cross(Diff(c, a), r) = Q(0)
             /\ Cross(Diff(d, a), r) = Q(0)
             /\ QLe(QMin(along(c, a, r), along(d, a, r)), Q(1))
             /\ QLe(Q(0), QMax(along(c, a, r), along(d, a, r)))

(* the gate of a marker with angle 0: from 3.048 m left to 3.048 m right *)
GateOf(marker) ==
    << QPt(QSub(marker.x, halfGate), marker.y), QPt(QAdd(marker.x, halfGate), marker.y) >>

(* squared distance from p to a gate lying along the x axis *)
DistToGate2(p, g) ==
    LET cx == IF QLt(p.x, g[1].x) THEN g[1].x ELSE IF QLt(g[2].x, p.x) THEN g[2].x ELSE p.x
    IN  QAdd(QSquare(QSub(p.x, cx)), QSquare(QSub(p.y, g[1].y)))

Located(samples) == {i \in 1..Len(samples) : isFinite(samples[i].x) /\ isFinite(samples[i].y)}

(* no movement between two located samples touches the gate *)
NeverMeets(samples, g) ==
    \A i \in 1..(Len(samples) - 1) :
        (i \in Located(samples) /\ i + 1 \in Located(samples))
        => ~SegmentsMeet(QPt(samples[i].x, samples[i].y),
                         QPt(samples[i + 1].x, samples[i + 1].y), g[1], g[2])

(* the time of the earliest of the nearest located samples *)
IsNearestTime(samples, g, time) ==
    \E i \in Located(samples) :
        /\ time = samples[i].time
        /\ \A k \in Located(samples) :
              LET di == DistToGate2(QPt(samples[i].x, samples[i].y), g)
                  dk == DistToGate2(QPt(samples[k].x, samples[k].y), g)
              IN  QLe(di, dk) /\ (k < i => QLt(di, dk))

(* the row of the run and the crossing times it was computed from *)
HasRow == Returned("sectorResults") /\ Val(call.result) # Null
Row == Val(Val(call.result))
Times == [i \in 1..Len(call.markers) |-> getCrossingTime(call.samples, call.markers[i])]

(* C21: a marker without a crossing time leaves no number behind: the split *)
(* ending at it and the split starting from it are null, and the total is   *)
(* null when the marker is the first or the last one.                       *)
C21_NullPropagates ==
    HasRow =>
        \A i \in 1..Len(call.markers) :
            Times[i] = Null
            => /\ Row.splits[i] = Null
               /\ i < Len(call.markers) => Row.splits[i + 1] = Null
               /\ (i = 1 \/ i = Len(call.markers)) => Row.total = Null

(* three markers and a run of two samples, neither with a position *)
C21_Witness ==
    /\ HasRow
    /\ Len(call.markers) = 3
    /\ Len(call.samples) = 2
    /\ Times[2] = Null
    /\ Row.splits = <<Null, Null, Null>>
    /\ Row.total = Null

C23_WitnessUnlocated ==
    /\ Returned("getCrossingTime")
    /\ Len(call.samples) = 2
    /\ Located(call.samples) = {}
    /\ Val(call.result) = Null

(* C24: doesLineCrossGate is true exactly when the closed movement segment  *)
(* and the closed gate segment (centred on the gate position, across its    *)
(* facing direction, half a width to either side) have a point in common,   *)
(* touching ends and overlapping colinear segments included.                *)
C24_ClosedSegments ==
    Returned("doesLineCrossGate") =>
        LET gate == call.gate
            half == QNorm(gate.width, 2)
            g1 == QPt(Q(gate.position.x), QAdd(Q(gate.position.y), half))
            g2 == QPt(Q(gate.position.x), QSub(Q(gate.position.y), half))
        IN  Val(call.result)
            <=> SegmentsMeet(QPt(Q(call.p1.x), Q(call.p1.y)),
                             QPt(Q(call.p2.x), Q(call.p2.y)), g1, g2)

(* a movement that ends on the upper end of the gate *)
C24_Witness ==
    /\ Returned("doesLineCrossGate")
    /\ call.p1 = Pt(2, 3) /\ call.p2 = Pt(3, 2)
    /\ Val(call.result) = TRUE

(* a movement along the gate line that overlaps the gate *)
C24_WitnessColinear ==
    /\ Returned("doesLineCrossGate")
    /\ call.p1 = Pt(3, -1) /\ call.p2 = Pt(3, 1)
    /\ Val(call.result) = TRUE

(* a movement along the gate line that stays beyond the gate *)
C24_WitnessApart ==
    /\ Returned("doesLineCrossGate")
    /\ call.p1 = Pt(3, 3) /\ call.p2 = Pt(3, 4)
    /\ Val(call.result) = FALSE

RECURSIVE SumOfSplits(_, _)
SumOfSplits(splits, i) ==
    IF i < 2 THEN Q(0) ELSE QAdd(SumOfSplits(splits, i - 1), Val(splits[i]))

(* C25: the first marker has no split, the split of marker i >= 2 is its    *)
(* crossing time minus that of the marker before it, the total is the last  *)
(* crossing time minus the first, and the splits add up to the total.       *)
C25_SplitsAreDifferences ==
    (HasRow /\ \A i \in 1..Len(call.markers) : Times[i] # Null)
    => LET n == Len(call.markers)
       IN  /\ Len(Row.splits) = n
           /\ Row.splits[1] = Null
           /\ \A i \in 2..n : Row.splits[i] = Some(QSub(Val(Times[i]), Val(Times[i - 1])))
           /\ Row.total = Some(QSub(Val(Times[n]), Val(Times[1])))
           /\ SumOfSplits(Row.splits, n) = Val(Row.total)

(* a run that crosses the line y = 0 at 0.5 and the line y = 1 at 0.75,     *)
(* with two markers on the first line and one on the second: splits 0 and   *)
(* 0.25, total 0.25                                                         *)
C25_Witness ==
    /\ HasRow
    /\ Len(call.markers) = 3
    /\ Times = <<Some(QNorm(1, 2)), Some(QNorm(1, 2)), Some(QNorm(3, 4))>>
    /\ Row.splits = <<Null, Some(Q(0)), Some(QNorm(1, 4))>>
    /\ Row.total = Some(QNorm(1, 4))

(* marker i + 1 is crossed by a movement that starts at or after time *)
CrossedFrom(samples, marker, time) ==
    \E k \in 1..(Len(samples) - 1) :
        MeetsGate(samples, GateOf(marker), k) /\ QLe(time, samples[k].time)

(* C26: for a run that crosses each marker at or after the crossing of the  *)
(* marker before it, the crossing times are non-decreasing along the marker *)
(* sequence and no split is negative.                                       *)
C26_NonDecreasing ==
    HasRow =>
        \A i \in 2..Len(call.markers) :
            (/\ Times[i - 1] # Null /\ Times[i] # Null
             /\ CrossedFrom(call.samples, call.markers[i], Val(Times[i - 1])))
            => /\ QLe(Val(Times[i - 1]), Val(Times[i]))
               /\ QLe(Q(0), Val(Row.splits[i]))

(* the timing-enabled sectors that have neither a polygon nor a gate *)
Unconfigured ==
    {i \in 1..Len(sectors) :
        /\ sectors[i].timingEnabled
        /\ sectors[i].polygon = Null
        /\ sectors[i].entryGate = Null
        /\ sectors[i].exitGate = Null}

(* C22: when a timing-enabled sector has neither a polygon nor a gate, a    *)
(* position evaluated against the course ends in an error: no call of       *)
(* updatePosition returns normally.                                         *)
C22_FailsFast ==
    (Unconfigured # {} /\ previousPositionRef # Null) => thrown

(* C27: after a history-recording edit, undo followed by redo leaves the    *)
(* elements and the sectors of the course exactly as the edit left them.    *)
C27_UndoRedoRoundTrip ==
    trail = <<"edit", "undo", "redo">> => Content(course) = Val(afterEdit)

(* C28: the history index stays within -1 .. length - 1, the history never  *)
(* holds more than 50 entries, canUndo and canRedo say whether the index is *)
(* at least 0 and below the last entry, and an edit keeps the entries up to *)
(* the index (less the oldest one when the limit is passed), appends its    *)
(* own and leaves nothing to redo.                                          *)
C28_HistoryBounds ==
    /\ [](/\ -1 <= historyIndex
          /\ historyIndex <= Len(history) - 1
          /\ Len(history) <= 50
          /\ canUndo(Editor) <=> historyIndex >= 0
          /\ canRedo(Editor) <=> historyIndex < Len(history) - 1)
    /\ [][(ops' = ops + 1 /\ trail'[Len(trail')] = "edit")
          => LET kept == SubSeq(history, 1, historyIndex + 1)
                 before == SubSeq(history', 1, Len(history') - 1)
             IN  /\ before = IF Len(kept) < 50 THEN kept ELSE Tail(kept)
                 /\ history'[Len(history')].elements = course.elements
                 /\ history'[Len(history')].sectors = course.sectors
                 /\ historyIndex' = Len(history') - 1
                 /\ ~(historyIndex' < Len(history') - 1)]_vars

(* two undos and then an edit: the two undone entries are gone *)
C28_Witness ==
    /\ trail = <<"undo", "undo", "edit">>
    /\ Len(history) = HistoryLimit - 1
    /\ historyIndex = HistoryLimit - 2

(* an edit on a full history: the oldest entry is dropped *)
C28_WitnessFull ==
    /\ trail = <<"edit">>
    /\ Len(history) = HistoryLimit
    /\ Len(history[1].elements) = 1
    /\ historyIndex = HistoryLimit - 1

(* C29: with the duration fixed and the speed positive, currentTime stays   *)
(* within [0, duration] whatever is played, paused, ticked and toggled, and *)
(* a tick that wraps around the end leaves it strictly below the duration.  *)
C29_TimeInRange ==
    /\ 0 <= state.currentTime /\ state.currentTime <= RunDuration
    /\ \A i \in 1..Len(ticks) :
          LET r == ticks[i]
          IN  /\ 0 <= r.next.currentTime /\ r.next.currentTime <= r.duration
              /\ (r.prev.isPlaying /\ r.looping /\ NewTime(r) >= r.duration)
                    => r.next.currentTime < r.duration

(* at double speed a tick of 500 ms from 9.5 s wraps to 0.5 s *)
C29_Witness ==
    /\ Len(ticks) = 1
    /\ ticks[1].prev.isPlaying /\ ticks[1].looping
    /\ ticks[1].speed = Multiplier(2)
    /\ ticks[1].deltaMs = 1
    /\ NewTime(ticks[1]) >= RunDuration
    /\ state.currentTime = 4
    /\ state.isPlaying

(* the updaters of a render leave time and looping to the ticks *)
NoSeekNoLoop(q) ==
    \A i \in 1..Len(q) : q[i].kind \notin {"handleSeek", "handleLoopToggle", "toggleLoop"}

(* C30: once currentTime is the duration with looping off, pressing play    *)
(* makes no progress as long as nobody seeks or switches looping on: every  *)
(* render leaves currentTime at the duration, and the first tick run while  *)
(* playing clamps to the duration and sets isPlaying to false.              *)
C30_NoProgressAtEnd ==
    [][(/\ IsRender
        /\ state.currentTime = RunDuration
        /\ ~state.looping
        /\ NoSeekNoLoop(queue))
       => /\ state'.currentTime = RunDuration
          /\ ~state'.looping
          /\ \A i \in 1..Len(ticks') :
                /\ ticks'[i].next.currentTime = RunDuration
                /\ ticks'[i].prev.isPlaying => ~ticks'[i].next.isPlaying]_vars

(* play pressed at the end of the run: the tick after the anchoring frame   *)
(* has stopped playback at the duration again                               *)
C30_Witness ==
    /\ Len(ticks) = 1
    /\ ticks[1].prev.isPlaying
    /\ ticks[1].prev.currentTime = RunDuration
    /\ ~ticks[1].looping
    /\ ticks[1].deltaMs > 0
    /\ state.currentTime = RunDuration
    /\ ~state.isPlaying

====
